---- MODULE Spec2Model ----
(***************************************************************************)
(* A model of the layout-reconstruction and text-fitting core of           *)
(* pdf_translator_poc (src/extractor.py, src/text_fitter.py,               *)
(* src/overlay_generator.py).                                              *)
(*                                                                         *)
(* Conventions                                                             *)
(*  - A Python string is a sequence of one-character strings, so that      *)
(*    split(), join(), slicing and rstrip() are computed, not assumed.     *)
(*  - Lengths in points are integers.  A width computed by                 *)
(*    estimate_text_width is kept in TENTHS of a point, because the        *)
(*    fallback character width is 0.6 * font_size.  Every comparison of    *)
(*    the code is cross-multiplied so that it is exact.                    *)
(*  - None, 0, "" and [] are all falsy in Python; where the code only      *)
(*    tests truthiness the model uses 0 for a missing number and <<>> for  *)
(*    a missing string or list.                                            *)
(***************************************************************************)
EXTENDS Integers, Sequences, FiniteSets, TLC

\* op     : the function being called
\* args   : its arguments
\* pc     : "call" before the function has run, "done" after it returned
\* result : its return value (<<>> while pc = "call")
\* wrap_calls : the font sizes at which wrap_text was entered during the call,
\*              in call order (an observation of the call, not program state)
VARIABLES op, args, pc, result, wrap_calls

vars == <<op, args, pc, result, wrap_calls>>

(***************************************************************************)
(* Bounds of the model.                                                    *)
(***************************************************************************)
MaxTextLen == 6
MaxLines == 3

Chars == {"a", "-", " "}
Texts == UNION {[1..n -> Chars] : n \in 0..MaxTextLen}
AvailableWidths == {11, 21, 101, 201}
FontSizes == {3, 10}
CharWidths == {0, 30, 49}

MaxParagraphs == 2
PageNumbers == {1, 2}
AvailableHeights == {20}
ParagraphTexts == {<<>>, <<"a", "a", " ", "a", " ", "a">>, <<"a", "a", "a", "a", " ", "a">>}
ParagraphBoxes == {[x0 |-> 5, y0 |-> 7, x1 |-> 5, y1 |-> 27],
                   [x0 |-> 5, y0 |-> 7, x1 |-> 106, y1 |-> 7],
                   [x0 |-> 5, y0 |-> 7, x1 |-> 106, y1 |-> 27]}
FontNames == {"Helvetica", "Helvetica-Bold"}
Paragraphs ==
    [text : ParagraphTexts, font_name : FontNames, font_size : {10},
     bounding_box : ParagraphBoxes, column : {0}, num_lines : {1, 2},
     page_number : PageNumbers, font_metrics : [standard_char_width : {30}]]
MaxChars == 3
MaxGroups == 3
PageHeights == {800}
PageWidths == {50, 600}
Glyphs == [x0 : {0, 15, 40, 100}, y0 : {0, 100}, size : {10}]
\* Every glyph is 5 points wide and 10 points high.
GlyphBox(g) == [x0 |-> g.x0, x1 |-> g.x0 + 5, y0 |-> g.y0, y1 |-> g.y0 + 10, size |-> g.size]
\* The same box without a size field.
UnsizedGlyphBox(g) == [x0 |-> g.x0, x1 |-> g.x0 + 5, y0 |-> g.y0, y1 |-> g.y0 + 10]
CharLists ==
    UNION {[1..n -> {GlyphBox(g) : g \in Glyphs} \cup {UnsizedGlyphBox(g) : g \in Glyphs}] :
               n \in 0..MaxChars}
Groups == [text : {"p", "q"}, center_x : {10, 200}, center_y : {100, 700}]
GroupLists == UNION {[1..n -> Groups] : n \in 0..MaxGroups}

ParagraphLists == UNION {[1..n -> Paragraphs] : n \in 0..MaxParagraphs}
\* What the translation service may return for a block that is not blank.
TranslatedTexts == {<<"a", "a", "a", " ", "a", "a">>}
TargetLanguages == {"vi"}
\* settings.py: the default of max_retries and of retry_delay.
MAX_RETRIES == 3
RETRY_DELAY == 1
\* The arguments of translate_text: an empty, a blank and two other blocks;
\* cached_translation is what check_translation_memory returns for the block,
\* << >> standing for None.
TranslateBlocks == {<<>>, <<" ">>, <<"a">>, <<"a", " ", "a">>}
TranslateArgs ==
    [text_block : TranslateBlocks, target_language : TargetLanguages,
     max_retries : 0..MAX_RETRIES, retry_delay : {RETRY_DELAY, 3 * RETRY_DELAY},
     cached_translation : {<<>>} \cup TranslatedTexts]

MaxPageChars == 6
MaxPages == 2
\* Glyphs of one font: with size 10 the widths 2 and 12 are the ends of the
\* accepted range and 13 is outside it; a glyph without a size field is
\* measured against the default size, for which 13 is inside and 2 outside.
SizedGlyphs ==
    {[fontname |-> "Helv", size |-> 10, text |-> g[1], x0 |-> 100, x1 |-> 100 + g[2]] :
        g \in {<<"a", 2>>, <<"a", 12>>, <<"a", 13>>, <<" ", 2>>}}
UnsizedGlyphs ==
    {[fontname |-> "Helv", text |-> "a", x0 |-> 100, x1 |-> 100 + w] : w \in {2, 13}}
MetricGlyphs == SizedGlyphs \cup UnsizedGlyphs
MetricCharLists == UNION {[1..n -> MetricGlyphs] : n \in 0..MaxPageChars}
\* The pages whose metrics are merged hold up to MaxMergedChars glyphs that
\* are sampled: of width 2 or 12 at size 10, of width 13 without a size.
MaxMergedChars == 5
MergedGlyphs == {g \in MetricGlyphs : g.text = "a" /\ g.x1 - g.x0 = (IF "size" \in DOMAIN g THEN 2 ELSE 13)}
                    \cup {g \in SizedGlyphs : g.text = "a" /\ g.x1 - g.x0 = 12}
MergedCharLists == UNION {[1..n -> MergedGlyphs] : n \in 0..MaxMergedChars}

MaxLineChars == 3
MaxStageChars == 2
\* Glyphs of a page, coordinates in hundredths of a point: 5 points wide and
\* 10 points high, at four x positions and on two baselines; visible or
\* blank with size 10, or visible without a size field.  The gap of 22 points
\* between the first two x positions and the 17 points between the baselines
\* lie between the thresholds of size 10 and those of the default size; the
\* third x position is 50 points from the first.
LineGlyphPositions == {0, 2700, 5000, 10000} \X {70004, 68300}
PageSizes == {[page_width |-> 60000, page_height |-> 80000]}
LineGlyphs ==
    {[fontname |-> "Helv", size |-> 10, text |-> t, x0 |-> p[1], x1 |-> p[1] + 500,
      y0 |-> p[2], y1 |-> p[2] + 1000] : t \in {"a", " "}, p \in LineGlyphPositions}
    \cup {[fontname |-> "Helv", text |-> "a", x0 |-> p[1], x1 |-> p[1] + 500,
           y0 |-> p[2], y1 |-> p[2] + 1000] : p \in LineGlyphPositions}
LineCharLists == UNION {[1..n -> LineGlyphs] : n \in 0..MaxLineChars}

(***************************************************************************)
(* Python string primitives.                                               *)
(***************************************************************************)
RECURSIVE SplitFrom(_, _, _, _)
SplitFrom(s, i, cur, acc) ==
    IF i > Len(s)
    THEN (IF cur = <<>> THEN acc ELSE Append(acc, cur))
    ELSE IF s[i] = " "
         THEN SplitFrom(s, i + 1, <<>>, IF cur = <<>> THEN acc ELSE Append(acc, cur))
         ELSE SplitFrom(s, i + 1, Append(cur, s[i]), acc)

\* str.split(): the maximal runs of non-whitespace characters, in order.
Split(s) == SplitFrom(s, 1, <<>>, <<>>)

RECURSIVE Join(_, _)
\* sep.join(parts)
Join(parts, sep) ==
    IF parts = <<>> THEN <<>>
    ELSE IF Len(parts) = 1 THEN parts[1]
    ELSE parts[1] \o sep \o Join(Tail(parts), sep)

RECURSIVE RStripHyphen(_)
\* s.rstrip('-')
RStripHyphen(s) ==
    IF s # <<>> /\ s[Len(s)] = "-" THEN RStripHyphen(SubSeq(s, 1, Len(s) - 1)) ELSE s

\* s[n:]
DropFirst(s, n) == SubSeq(s, n + 1, Len(s))

\* s[:n] for n >= 0
TakeFirst(s, n) == SubSeq(s, 1, IF n < Len(s) THEN n ELSE Len(s))

\* dict.get(key, default) on a glyph or paragraph record.
Get(record, key, default) == IF key \in DOMAIN record THEN record[key] ELSE default

Max(a, b) == IF a >= b THEN a ELSE b
Min(a, b) == IF a <= b THEN a ELSE b

RECURSIVE SeqMin(_)
SeqMin(s) == IF Len(s) = 1 THEN s[1] ELSE Min(s[1], SeqMin(Tail(s)))

RECURSIVE SeqMax(_)
SeqMax(s) == IF Len(s) = 1 THEN s[1] ELSE Max(s[1], SeqMax(Tail(s)))

(***************************************************************************)
(* text_fitter.py                                                          *)
(***************************************************************************)

\* TextFittingResult.__init__ : "lines if lines else []"
TextFittingResult(fitted_text, scaled_font_size, lines, is_truncated, fit_method) ==
    [fitted_text |-> fitted_text, scaled_font_size |-> scaled_font_size,
     lines |-> lines, is_truncated |-> is_truncated, fit_method |-> fit_method]

\* estimate_text_width, in tenths of a point: len(text) * pdf_standard_char_width
\* when that width is truthy, else len(text) * font_size * 0.6.
estimate_text_width(text, font_size, pdf_standard_char_width) ==
    IF pdf_standard_char_width # 0
    THEN Len(text) * pdf_standard_char_width * 10
    ELSE Len(text) * font_size * 6

\* calculate_max_chars_per_line: the sample string is measured without PDF
\* metrics, so avg_char_width = font_size * 0.6 (font_size > 0), and
\* max_chars = max(5, int(available_width * 0.99 / avg_char_width)).
calculate_max_chars_per_line(available_width, font_size) ==
    Max(5, (available_width * 990) \div (font_size * 600))

\* break_long_word: the part of the word to emit, <<>> for None.
break_long_word(word, available_width, font_size, pdf_standard_char_width) ==
    IF Len(word) <= 1 THEN <<>>
    ELSE LET max_chars ==
                 IF pdf_standard_char_width # 0
                 THEN (available_width * 96) \div (pdf_standard_char_width * 100)
                 ELSE calculate_max_chars_per_line(available_width, font_size)
             max_word_chars == max_chars - 1
         IN IF max_word_chars <= 0 THEN <<word[1]>>
            ELSE IF Len(word) > max_word_chars
                 THEN TakeFirst(word, max_word_chars) \o <<"-">>
                 ELSE <<>>

\* A wrap margin of 1.2 instead of 0.99.
WrapFits_loose(test_width, available_width) == test_width * 10 <= available_width * 120

\* wrap_text lines 316-317: test_width <= available_width * 0.99
WrapFits(test_width, available_width) == test_width * 10 <= available_width * 99

\* An overlong word is never broken.
TryBreak_never(word, available_width, font_size, pdf_standard_char_width) == <<>>

\* wrap_text lines 343-354: a word of more than one character that starts a
\* line and does not fit is handed to break_long_word; <<>> when the word is
\* kept whole.
TryBreak(word, available_width, font_size, pdf_standard_char_width) ==
    IF Len(word) > 1
    THEN break_long_word(word, available_width, font_size, pdf_standard_char_width)
    ELSE <<>>

\* wrap_text line 349: remaining = word[len(broken_part.rstrip('-')):]
WordRemainder(word, broken_part) == DropFirst(word, Len(RStripHyphen(broken_part)))

\* optimize_text_redistribution line 234/240: test_width <= available_width * 0.96
RedistributeFits(test_width, available_width) == test_width * 10 <= available_width * 96

RECURSIVE RedistributeLoop(_, _, _, _, _, _, _)
\* optimize_text_redistribution lines 236-252: greedy refill of all words.
RedistributeLoop(all_words, i, optimized_lines, current_line, available_width, font_size, cw) ==
    IF i > Len(all_words)
    THEN (IF current_line # <<>> THEN Append(optimized_lines, current_line) ELSE optimized_lines)
    ELSE LET word == all_words[i]
             test_line == current_line \o (IF current_line # <<>> THEN <<" ">> ELSE <<>>) \o word
             test_width == estimate_text_width(test_line, font_size, cw)
         IN IF RedistributeFits(test_width, available_width)
            THEN RedistributeLoop(all_words, i + 1, optimized_lines, test_line,
                                  available_width, font_size, cw)
            ELSE IF current_line # <<>>
                 THEN RedistributeLoop(all_words, i + 1, Append(optimized_lines, current_line),
                                       word, available_width, font_size, cw)
                 ELSE RedistributeLoop(all_words, i + 1, Append(optimized_lines, word),
                                       <<>>, available_width, font_size, cw)

RECURSIVE AllWords(_)
\* optimize_text_redistribution lines 227-229
AllWords(lines) == IF lines = <<>> THEN <<>> ELSE Split(lines[1]) \o AllWords(Tail(lines))

\* optimize_text_redistribution: the optimized lines, <<>> for None.
\* Utilization is (width / available_width) * 100; widths are in tenths.
optimize_text_redistribution(lines, available_width, font_size, cw) ==
    IF Len(lines) < 2 THEN <<>>
    ELSE LET widths == [k \in 1..Len(lines) |-> estimate_text_width(lines[k], font_size, cw)]
             min_w == SeqMin(widths)
             max_w == SeqMax(widths)
         IN IF (max_w - min_w) < 2 * available_width THEN <<>>
            ELSE IF ~ \E k \in 1..Len(lines) : widths[k] < 8 * available_width THEN <<>>
            ELSE LET optimized_lines ==
                         RedistributeLoop(AllWords(lines), 1, <<>>, <<>>,
                                          available_width, font_size, cw)
                     new_widths == [k \in 1..Len(optimized_lines) |->
                                       estimate_text_width(optimized_lines[k], font_size, cw)]
                 IN IF Len(optimized_lines) <= Len(lines)
                       /\ SeqMin(new_widths) > min_w
                    THEN optimized_lines
                    ELSE <<>>

RECURSIVE WrapLoop(_, _, _, _, _, _, _, _)
\* wrap_text lines 310-354: the loop over the words; returns the local
\* variables lines, current_line and is_truncated at loop exit.
WrapLoop(words, i, lines, current_line, available_width, max_lines, font_size, cw) ==
    IF i > Len(words)
    THEN [lines |-> lines, current_line |-> current_line, is_truncated |-> FALSE]
    ELSE LET word == words[i]
             test_line == current_line \o (IF current_line # <<>> THEN <<" ">> ELSE <<>>) \o word
             test_width == estimate_text_width(test_line, font_size, cw)
         IN IF WrapFits(test_width, available_width)
            THEN WrapLoop(words, i + 1, lines, test_line, available_width, max_lines, font_size, cw)
            ELSE IF current_line # <<>>
                 THEN LET lines2 == Append(lines, current_line)
                      IN IF Len(lines2) >= max_lines
                         THEN [lines |-> lines2, current_line |-> word, is_truncated |-> TRUE]
                         ELSE WrapLoop(words, i + 1, lines2, word,
                                       available_width, max_lines, font_size, cw)
                 ELSE LET broken_part == TryBreak(word, available_width, font_size, cw)
                      IN IF broken_part # <<>>
                         THEN WrapLoop(words, i + 1, Append(lines, broken_part),
                                       WordRemainder(word, broken_part),
                                       available_width, max_lines, font_size, cw)
                         ELSE WrapLoop(words, i + 1, lines, word,
                                       available_width, max_lines, font_size, cw)

\* Content left after the last line is dropped without a flag.
ContentLeftOver_silent(lines, current_line, max_lines) == FALSE

\* wrap_text lines 372-374: "elif current_line and len(lines) >= max_lines"
ContentLeftOver(lines, current_line, max_lines) ==
    current_line # <<>> /\ Len(lines) >= max_lines

\* wrap_text(text, available_width, max_lines, font_size, font_name, pdf_standard_char_width)
wrap_text(text, available_width, max_lines, font_size, cw) ==
    IF text = <<>> THEN TextFittingResult(<<>>, font_size, <<>>, FALSE, "precise_wrap")
    ELSE LET words == Split(text)
         IN IF words = <<>> THEN TextFittingResult(<<>>, font_size, <<>>, FALSE, "precise_wrap")
            ELSE LET loop == WrapLoop(words, 1, <<>>, <<>>, available_width, max_lines, font_size, cw)
                     \* lines 357-374
                     lines1 == IF loop.current_line # <<>> /\ Len(loop.lines) < max_lines
                               THEN Append(loop.lines, loop.current_line)
                               ELSE loop.lines
                     is_truncated == loop.is_truncated
                                     \/ ContentLeftOver(loop.lines, loop.current_line, max_lines)
                     \* lines 377-378
                     lines2 == IF lines1 = <<>> THEN <<text>> ELSE lines1
                     \* lines 383-387
                     optimized_lines == IF Len(lines2) > 1 /\ ~is_truncated
                                        THEN optimize_text_redistribution(lines2, available_width,
                                                                          font_size, cw)
                                        ELSE <<>>
                     lines3 == IF optimized_lines # <<>> THEN optimized_lines ELSE lines2
                 IN TextFittingResult(Join(lines3, <<"\n">>), font_size, lines3,
                                      is_truncated, "precise_wrap")

\* The font size is cut to 80% instead of being kept.
AdjustedFontSize_reduced(font_size) == (font_size * 8) \div 10

\* fit_text_to_bounds lines 566 and 574: adjusted_font_size = font_size
AdjustedFontSize(font_size) == font_size

\* A missing line count is passed on instead of defaulting to 1.
EffectiveNumLines_nodefault(num_lines) == num_lines

\* fit_text_to_bounds lines 555-556: "if not num_lines: num_lines = 1"
EffectiveNumLines(num_lines) == IF num_lines = 0 THEN 1 ELSE num_lines

\* The PDF metrics are ignored.
MetricsCharWidth_ignored(font_metrics) == 0

\* fit_text_to_bounds lines 578-580: the standard_char_width of font_metrics,
\* 0 when there are no metrics or no width.
MetricsCharWidth(font_metrics) == font_metrics.standard_char_width

\* fit_text_to_bounds(text, available_width, available_height, font_size,
\*                    num_lines=..., font_metrics=...); num_lines = 0 is None.
fit_text_to_bounds(text, available_width, available_height, font_size, num_lines, font_metrics) ==
    IF text = <<>> THEN TextFittingResult(<<>>, font_size, <<>>, FALSE, "empty")
    ELSE IF EffectiveNumLines(num_lines) = 1
         THEN TextFittingResult(text, AdjustedFontSize(font_size), <<text>>, FALSE, "single_line")
         ELSE LET wrapped == wrap_text(text, available_width, EffectiveNumLines(num_lines),
                                       AdjustedFontSize(font_size),
                                       MetricsCharWidth(font_metrics))
              IN [wrapped EXCEPT !.scaled_font_size = AdjustedFontSize(font_size),
                                 !.fit_method = "multi_line"]

\* The font sizes of the wrap_text calls fit_text_to_bounds makes (lines
\* 550-584): none for empty or single-line text, one otherwise.
FitWrapCalls(text, font_size, num_lines) ==
    IF text = <<>> \/ EffectiveNumLines(num_lines) = 1
    THEN <<>>
    ELSE <<AdjustedFontSize(font_size)>>

\* process_paragraphs lines 473-475 and 507-515: the keys written to the copy
\* of a paragraph.  The key is_truncated is only set when true; FALSE stands
\* for its absence.
WrittenFields(paragraph, skipped, fitting_result) ==
    [text |-> IF skipped THEN paragraph.text ELSE fitting_result.fitted_text,
     fitted_lines |-> IF skipped THEN <<>> ELSE fitting_result.lines,
     fit_method |-> IF skipped THEN "not_fitted" ELSE fitting_result.fit_method,
     scaled_font_size |-> IF skipped THEN paragraph.font_size
                          ELSE fitting_result.scaled_font_size,
     is_truncated |-> IF skipped THEN FALSE ELSE fitting_result.is_truncated]

\* process_paragraphs line 469: paragraph.copy() with the written keys; every
\* other key is the one of the copied paragraph.
CopyWith(paragraph, written) ==
    [f \in DOMAIN paragraph \cup DOMAIN written |->
        IF f \in DOMAIN written THEN written[f] ELSE paragraph[f]]

\* process_paragraphs line 472: "if not text or not width or not height"
IsSkipped(text, bbox) == text = <<>> \/ bbox.x1 - bbox.x0 = 0 \/ bbox.y1 - bbox.y0 = 0

\* process_paragraphs lines 450-517 for one paragraph.  The extracted
\* paragraphs carry no "width"/"height" key, so both come from bounding_box.
ProcessParagraph(paragraph) ==
    CopyWith(paragraph,
             WrittenFields(paragraph,
                           IsSkipped(paragraph.text, paragraph.bounding_box),
                           fit_text_to_bounds(paragraph.text,
                                              paragraph.bounding_box.x1 - paragraph.bounding_box.x0,
                                              paragraph.bounding_box.y1 - paragraph.bounding_box.y0,
                                              paragraph.font_size, paragraph.num_lines,
                                              paragraph.font_metrics)))

\* The fitting fields are written to the paragraph itself.
ProcessedInput_shared(paragraph) == ProcessParagraph(paragraph)

\* process_paragraphs line 469: processed_paragraph = paragraph.copy(); every
\* later write goes to the copy, so the paragraph of the caller is, after the
\* iteration, what it was.
ProcessedInput(paragraph) == paragraph

\* A paragraph that is not fitted is left out of the result.
process_paragraphs_dropping(paragraphs) ==
    SelectSeq([i \in 1..Len(paragraphs) |-> ProcessParagraph(paragraphs[i])],
              LAMBDA p : p.fit_method # "not_fitted")

\* process_paragraphs(paragraphs)
process_paragraphs(paragraphs) ==
    [i \in 1..Len(paragraphs) |-> ProcessParagraph(paragraphs[i])]

(***************************************************************************)
(* translator.py                                                           *)
(***************************************************************************)

\* translate_text line 88: "not text_block or text_block.isspace()"
IsEmptyOrSpace(text_block) ==
    text_block = <<>> \/ \A k \in 1..Len(text_block) : text_block[k] = " "

\* translate_text lines 72-74: the locals of a call that has just begun.
\* calls is the history of the outcomes of translate_client.translate_text,
\* sleeps that of the delays slept, saved that of the pairs handed to
\* save_to_translation_memory; outcome tells how the call ended and value
\* what it returned.
TranslateFrame(retry_delay) ==
    [attempt |-> 0, retry_delay |-> retry_delay, calls |-> <<>>, sleeps |-> <<>>,
     saved |-> <<>>, outcome |-> "running", value |-> <<>>]

\* translate_text: "return value"
Return(frame, value) == [frame EXCEPT !.outcome = "returned", !.value = value]

\* translate_text lines 159-163: the pair save_to_translation_memory writes.
TranslationPair(source_text, translated_text, target_language) ==
    [source_text |-> source_text, translated_text |-> translated_text,
     target_language |-> target_language]

\* translate_text line 107: "for attempt in range(max_retries)" has no
\* further value of attempt.
LoopExhausted(frame, max_retries) == frame.attempt >= max_retries

\* translate_text lines 109-125: the client returned a translation.
AfterResponse(frame, text_block, translated_text, target_language) ==
    Return([frame EXCEPT !.calls = Append(@, "TranslatedText"),
                         !.saved = Append(@, TranslationPair(text_block, translated_text,
                                                             target_language))],
           translated_text)

\* translate_text lines 127-139: the client raised ClientError.
AfterClientError(frame, text_block, max_retries) ==
    IF frame.attempt < max_retries - 1
    THEN [frame EXCEPT !.calls = Append(@, "ClientError"),
                       !.sleeps = Append(@, frame.retry_delay),
                       !.retry_delay = @ * 2,
                       !.attempt = @ + 1]
    ELSE Return([frame EXCEPT !.calls = Append(@, "ClientError")], text_block)

\* translate_text lines 141-143: the client raised another exception.
AfterException(frame, text_block) ==
    Return([frame EXCEPT !.calls = Append(@, "Exception")], text_block)

\* translate_text lines 88-143: what a call can return for a block.  An
\* empty or blank block is returned as it is; otherwise the result is the
\* cached or the freshly translated text, or the block itself when every
\* attempt failed.
TranslateTextOutcomes(text_block, translations) ==
    IF text_block = <<>> \/ \A k \in 1..Len(text_block) : text_block[k] = " "
    THEN {text_block}
    ELSE {text_block} \cup translations

\* batch_translate lines 219-250: one result per block, in order; a block
\* whose translation raised is kept (line 241).
BatchTranslateOutcomes(text_blocks, translations) ==
    {blocks \in [1..Len(text_blocks) -> UNION {TranslateTextOutcomes(text_blocks[i], translations) :
                                                   i \in 1..Len(text_blocks)}] :
        \A i \in 1..Len(text_blocks) :
            blocks[i] \in TranslateTextOutcomes(text_blocks[i], translations)}

\* translate_paragraphs lines 275-280: the copy of a paragraph with its text
\* replaced and the translation tags added.
TranslateParagraph(paragraph, translated_block, target_language) ==
    LET written == [text |-> translated_block, translated |-> TRUE,
                    target_language |-> target_language]
    IN [f \in DOMAIN paragraph \cup DOMAIN written |->
           IF f \in DOMAIN written THEN written[f] ELSE paragraph[f]]

\* translate_paragraphs line 275: the writes go to a copy of the paragraph.
TranslatedInput(paragraph) == paragraph

\* translate_paragraphs(paragraphs, target_language), given the blocks
\* batch_translate returned.
translate_paragraphs(paragraphs, target_language, translated_blocks) ==
    [i \in 1..Len(paragraphs) |->
        TranslateParagraph(paragraphs[i], translated_blocks[i], target_language)]

(***************************************************************************)
(* extractor.py                                                            *)
(***************************************************************************)

RECURSIVE InsertByKey(_, _)
\* Insert the pair <<key, item>> after every pair whose key is not greater.
InsertByKey(sorted, pair) ==
    IF sorted = <<>> THEN <<pair>>
    ELSE IF Head(sorted)[1] <= pair[1]
         THEN <<Head(sorted)>> \o InsertByKey(Tail(sorted), pair)
         ELSE <<pair>> \o sorted

RECURSIVE SortPairs(_)
SortPairs(pairs) ==
    IF pairs = <<>> THEN <<>>
    ELSE InsertByKey(SortPairs(SubSeq(pairs, 1, Len(pairs) - 1)), pairs[Len(pairs)])

\* sorted(s, key=...): ascending and stable (equal keys keep their order);
\* keys[i] is the key of s[i].
SortedAscBy(s, keys) ==
    LET sorted_pairs == SortPairs([i \in 1..Len(s) |-> <<keys[i], s[i]>>])
    IN [i \in 1..Len(s) |-> sorted_pairs[i][2]]

\* A boundary position is a fraction num / den of a point (den > 0): the
\* midpoints and averages of the code need not be integers.
Fraction(num, den) == [num |-> num, den |-> den]

\* detect_columns_by_gaps lines 185-188: gap_size > size * 0.6 * 1.5
IsCandidateGap(gap_size, size) == gap_size * 10 > size * 9

\* detect_columns_by_gaps lines 179-200: the gap between sorted_chars[i-1] and
\* sorted_chars[i]; position2 is twice the midpoint "position".
GapBetween(prev_char, curr_char) ==
    [position2 |-> prev_char.x1 + curr_char.x0,
     size |-> curr_char.x0 - prev_char.x1,
     y_lo |-> Min(prev_char.y0, curr_char.y0),
     y_hi |-> Max(prev_char.y1, curr_char.y1)]

RECURSIVE FindGaps(_, _)
FindGaps(sorted_chars, i) ==
    IF i > Len(sorted_chars) THEN <<>>
    ELSE LET gap == GapBetween(sorted_chars[i - 1], sorted_chars[i])
         IN (IF IsCandidateGap(gap.size, Get(sorted_chars[i - 1], "size", 12))
             THEN <<gap>> ELSE <<>>)
                \o FindGaps(sorted_chars, i + 1)

RECURSIVE GroupGaps(_, _, _, _)
\* detect_columns_by_gaps lines 210-219: a gap joins the current group when
\* its position is less than 30 points from the group's last gap.
GroupGaps(sorted_gaps, i, gap_groups, current_group) ==
    IF i > Len(sorted_gaps) THEN Append(gap_groups, current_group)
    ELSE LET gap == sorted_gaps[i]
             last == current_group[Len(current_group)]
             dist2 == IF gap.position2 >= last.position2
                      THEN gap.position2 - last.position2
                      ELSE last.position2 - gap.position2
         IN IF dist2 < 60
            THEN GroupGaps(sorted_gaps, i + 1, gap_groups, Append(current_group, gap))
            ELSE GroupGaps(sorted_gaps, i + 1, Append(gap_groups, current_group), <<gap>>)

RECURSIVE SeqSum(_)
SeqSum(s) == IF s = <<>> THEN 0 ELSE Head(s) + SeqSum(Tail(s))

\* A gap group has to exceed both size thresholds.
IsColumnGap_both(gap_group, page_width, page_height) ==
    LET n == Len(gap_group)
        sum_size == SeqSum([k \in 1..n |-> gap_group[k].size])
        total_y_coverage ==
            SeqMax([k \in 1..n |-> gap_group[k].y_hi]) - SeqMin([k \in 1..n |-> gap_group[k].y_lo])
    IN /\ (sum_size > 10 * n /\ sum_size * 20 > page_width * n)
       /\ total_y_coverage * 10 > page_height

\* detect_columns_by_gaps lines 236-238:
\* (avg_size > 10 or avg_size > page_width * 0.05)
\*     and total_y_coverage > page_height * 0.1
IsColumnGap(gap_group, page_width, page_height) ==
    LET n == Len(gap_group)
        sum_size == SeqSum([k \in 1..n |-> gap_group[k].size])
        total_y_coverage ==
            SeqMax([k \in 1..n |-> gap_group[k].y_hi]) - SeqMin([k \in 1..n |-> gap_group[k].y_lo])
    IN /\ (sum_size > 10 * n \/ sum_size * 20 > page_width * n)
       /\ total_y_coverage * 10 > page_height

RECURSIVE ColumnGapPositions(_, _, _)
\* detect_columns_by_gaps lines 225-250: avg_position of every accepted group.
ColumnGapPositions(gap_groups, page_width, page_height) ==
    IF gap_groups = <<>> THEN <<>>
    ELSE LET gap_group == Head(gap_groups)
             sum_position2 == SeqSum([k \in 1..Len(gap_group) |-> gap_group[k].position2])
         IN (IF IsColumnGap(gap_group, page_width, page_height)
             THEN <<Fraction(sum_position2, 2 * Len(gap_group))>>
             ELSE <<>>)
                \o ColumnGapPositions(Tail(gap_groups), page_width, page_height)

\* detect_columns_by_gaps(chars, page_width)
detect_columns_by_gaps(chars, page_width) ==
    IF chars = <<>> THEN <<Fraction(0, 1), Fraction(page_width, 1)>>
    ELSE LET sorted_chars == SortedAscBy(chars, [i \in 1..Len(chars) |-> chars[i].x0])
             gaps == FindGaps(sorted_chars, 2)
         IN IF gaps = <<>> THEN <<Fraction(0, 1), Fraction(page_width, 1)>>
            ELSE LET sorted_gaps ==
                         SortedAscBy(gaps, [i \in 1..Len(gaps) |-> gaps[i].position2])
                     gap_groups == GroupGaps(sorted_gaps, 2, <<>>, <<sorted_gaps[1]>>)
                     n == Len(chars)
                     page_height == SeqMax([k \in 1..n |-> chars[k].y1])
                                      - SeqMin([k \in 1..n |-> chars[k].y0])
                 IN <<Fraction(0, 1)>>
                        \o ColumnGapPositions(gap_groups, page_width, page_height)
                        \o <<Fraction(page_width, 1)>>

\* The weight of the vertical component is dropped.
calculate_reading_order_score_unweighted(cluster, page_height) ==
    (page_height - cluster.center_y) + cluster.center_x

\* calculate_reading_order_score(cluster, page_height)
calculate_reading_order_score(cluster, page_height) ==
    (page_height - cluster.center_y) * 1000 + cluster.center_x

\* sort_groups_by_reading_order(groups, page_height): every group gets its
\* reading_order_score; sorted(..., reverse=True) is a stable descending sort.
sort_groups_by_reading_order(groups, page_height) ==
    LET scored == [i \in 1..Len(groups) |->
                      [f \in DOMAIN groups[i] \cup {"reading_order_score"} |->
                          IF f = "reading_order_score"
                          THEN calculate_reading_order_score(groups[i], page_height)
                          ELSE groups[i][f]]]
    IN SortedAscBy(scored, [i \in 1..Len(scored) |-> 0 - scored[i].reading_order_score])

\* extract_font_metrics line 30: font_key = f"{font_name}_{font_size}".  The
\* key is kept as the pair it is formatted from.
FontKey(font_name, font_size) == <<font_name, font_size>>

\* extract_font_metrics lines 34-40: the entry of a font variant not seen
\* before.  standard_char_width = 0 stands for None: a sampled width is at
\* least 0.2 * font_size, which is positive for every font size of the model.
NewFontMetrics(font_name, font_size) ==
    [font_name |-> font_name, font_size |-> font_size, standard_char_width |-> 0,
     char_samples |-> <<>>, sample_count |-> 0]

\* extract_font_metrics line 46: char_text and char_text.strip()
IsVisibleText(char_text) == char_text # "" /\ char_text # " "

\* Every width is accepted as a sample.
InExpectedRange_any(actual_width, font_size) == TRUE

\* extract_font_metrics lines 52-53:
\* font_size * 0.2 <= actual_width <= font_size * 1.2
InExpectedRange(actual_width, font_size) ==
    /\ font_size * 2 <= actual_width * 10
    /\ actual_width * 10 <= font_size * 12

\* The width of the first sample is taken.
MedianWidth_first(char_samples) == char_samples[1].width

\* extract_font_metrics lines 62-64: widths.sort(); widths[len(widths)//2]
MedianWidth(char_samples) ==
    LET widths == [k \in 1..Len(char_samples) |-> char_samples[k].width]
    IN SortedAscBy(widths, widths)[(Len(widths) \div 2) + 1]

\* extract_font_metrics line 50: samples are collected only while the width
\* is not frozen and fewer than 10 samples are held.
CanSample(metrics) == metrics.standard_char_width = 0 /\ Len(metrics.char_samples) < 10

\* extract_font_metrics lines 46-71 for one font variant: the entry after
\* the character was looked at.
SampleChar(metrics, char) ==
    LET char_text == Get(char, "text", "")
        actual_width == Get(char, "x1", 0) - Get(char, "x0", 0)
        sampled == [metrics EXCEPT !.char_samples =
                       Append(@, [width |-> actual_width, char |-> char_text,
                                  sample_index |-> metrics.sample_count])]
        frozen == IF Len(sampled.char_samples) >= 5
                  THEN [sampled EXCEPT !.standard_char_width = MedianWidth(sampled.char_samples),
                                       !.char_samples = <<>>]
                  ELSE sampled
    IN IF ~IsVisibleText(char_text) THEN metrics
       ELSE [(IF CanSample(metrics) /\ InExpectedRange(actual_width, metrics.font_size)
              THEN frozen ELSE metrics)
             EXCEPT !.sample_count = @ + 1]

\* extract_font_metrics lines 26-71: the body of the loop for one character.
CollectChar(font_metrics, char) ==
    LET font_name == Get(char, "fontname", "Unknown")
        font_size == Get(char, "size", 12)
        font_key == FontKey(font_name, font_size)
        metrics == IF font_key \in DOMAIN font_metrics
                   THEN font_metrics[font_key]
                   ELSE NewFontMetrics(font_name, font_size)
    IN [k \in DOMAIN font_metrics \cup {font_key} |->
           IF k = font_key THEN SampleChar(metrics, char) ELSE font_metrics[k]]

RECURSIVE extract_font_metrics(_)
\* extract_font_metrics(char_data): the map from font key to metrics; the
\* empty function << >> is the empty dict.
extract_font_metrics(char_data) ==
    IF char_data = <<>> THEN <<>>
    ELSE CollectChar(extract_font_metrics(SubSeq(char_data, 1, Len(char_data) - 1)),
                     char_data[Len(char_data)])

\* The width of the page replaces the global one whenever it is set.
MergeEntry_overwrite(existing, metrics) ==
    [existing EXCEPT
        !.standard_char_width =
            IF metrics.standard_char_width # 0 THEN metrics.standard_char_width ELSE @,
        !.sample_count = @ + metrics.sample_count]

\* extract_text_metadata lines 114-124: the global entry of a key after the
\* entry of a page was merged into it.
MergeEntry(existing, metrics) ==
    [existing EXCEPT
        !.standard_char_width =
            IF existing.standard_char_width = 0 /\ metrics.standard_char_width # 0
            THEN metrics.standard_char_width ELSE @,
        !.char_samples =
            IF existing.standard_char_width = 0 /\ metrics.standard_char_width = 0
            THEN @ \o metrics.char_samples ELSE @,
        !.sample_count = @ + metrics.sample_count]

\* extract_text_metadata lines 109-124: all_pages_data["font_metrics"] after
\* the metrics of one page were merged into it.  The keys are handled
\* independently of each other, so the dict order plays no role.  A new key
\* stores the page's entry object itself; every page builds fresh entries, so
\* the sharing is not visible in the map.
MergeFontMetrics(global_metrics, font_metrics) ==
    [k \in DOMAIN global_metrics \cup DOMAIN font_metrics |->
        IF k \notin DOMAIN global_metrics THEN font_metrics[k]
        ELSE IF k \notin DOMAIN font_metrics THEN global_metrics[k]
        ELSE MergeEntry(global_metrics[k], font_metrics[k])]

\* |a - b|
AbsDiff(a, b) == IF a >= b THEN a - b ELSE b - a

\* round(y, 1) of a coordinate given in hundredths of a point, in tenths of
\* a point (the coordinates of the model are never half-way between two
\* tenths).
Round1(y) == (y + 5) \div 10

RECURSIVE DistinctDescending(_)
\* sorted(keys, reverse=True) of a set of numbers
DistinctDescending(S) ==
    IF S = {} THEN <<>>
    ELSE LET top == CHOOSE n \in S : \A m \in S : n >= m
         IN <<top>> \o DistinctDescending(S \ {top})

\* The threshold is 20 points whatever the size of the character.
SegmentGapThreshold_fixed(char) == 2000

\* detect_lines_and_paragraphs lines 342-344: max(20, char.get("size", 12) * 2),
\* in hundredths of a point.
SegmentGapThreshold(char) == Max(2000, Get(char, "size", 12) * 200)

RECURSIVE SplitSegments(_, _, _, _)
\* detect_lines_and_paragraphs lines 330-354: the characters of one line, left
\* to right, are cut where the gap to the previous character exceeds the
\* threshold.
SplitSegments(line_chars, i, line_segments, current_segment) ==
    IF i > Len(line_chars)
    THEN (IF current_segment # <<>> THEN Append(line_segments, current_segment)
          ELSE line_segments)
    ELSE LET char == line_chars[i]
         IN IF current_segment = <<>>
            THEN SplitSegments(line_chars, i + 1, line_segments, <<char>>)
            ELSE LET prev_char == current_segment[Len(current_segment)]
                     gap_size == char.x0 - prev_char.x1
                 IN IF gap_size > SegmentGapThreshold(char)
                    THEN SplitSegments(line_chars, i + 1,
                                       Append(line_segments, current_segment), <<char>>)
                    ELSE SplitSegments(line_chars, i + 1, line_segments,
                                       Append(current_segment, char))

\* detect_lines_and_paragraphs lines 357-367: the record of one segment; its
\* text is the sequence of the characters' texts.
ColumnSegment(y_pos, seg_idx, segment) ==
    [y_pos |-> y_pos, column |-> seg_idx, chars |-> segment,
     x_start |-> SeqMin([k \in 1..Len(segment) |-> segment[k].x0]),
     x_end |-> SeqMax([k \in 1..Len(segment) |-> segment[k].x1]),
     text |-> [k \in 1..Len(segment) |-> segment[k].text]]

\* A line claims every character within 20 points of its y position.
LineSegments_tolerant(chars, y_pos) ==
    LET in_line == SelectSeq(chars, LAMBDA c : AbsDiff(Round1(c.y0), y_pos) <= 200)
        line_chars == SortedAscBy(in_line, [k \in 1..Len(in_line) |-> in_line[k].x0])
        line_segments == SplitSegments(line_chars, 1, <<>>, <<>>)
    IN [k \in 1..Len(line_segments) |-> ColumnSegment(y_pos, k - 1, line_segments[k])]

\* detect_lines_and_paragraphs lines 326-367 for one y position: the
\* characters of the line (lines 313-318), sorted by x0, as segments.
LineSegments(chars, y_pos) ==
    LET in_line == SelectSeq(chars, LAMBDA c : Round1(c.y0) = y_pos)
        line_chars == SortedAscBy(in_line, [k \in 1..Len(in_line) |-> in_line[k].x0])
        line_segments == SplitSegments(line_chars, 1, <<>>, <<>>)
    IN [k \in 1..Len(line_segments) |-> ColumnSegment(y_pos, k - 1, line_segments[k])]

RECURSIVE SegmentsOfLines(_, _)
SegmentsOfLines(chars, sorted_y_positions) ==
    IF sorted_y_positions = <<>> THEN <<>>
    ELSE LineSegments(chars, Head(sorted_y_positions))
             \o SegmentsOfLines(chars, Tail(sorted_y_positions))

\* detect_lines_and_paragraphs lines 312-367 (steps 1 and 2): column_segments.
ColumnSegments(chars) ==
    SegmentsOfLines(chars, DistinctDescending({Round1(chars[k].y0) : k \in 1..Len(chars)}))

RECURSIVE FindColumn(_, _, _)
\* detect_lines_and_paragraphs lines 379-382: the index of the first column,
\* in order of creation, whose key is less than 50 points from x_start; 0 if
\* there is none.
FindColumn(column_groups, i, x_start) ==
    IF i > Len(column_groups) THEN 0
    ELSE IF AbsDiff(x_start, column_groups[i].col_key) < 5000 THEN i
    ELSE FindColumn(column_groups, i + 1, x_start)

RECURSIVE GroupByColumn(_, _, _)
\* detect_lines_and_paragraphs lines 372-389: column_groups, as the list of
\* its items in order of creation.
GroupByColumn(column_segments, i, column_groups) ==
    IF i > Len(column_segments) THEN column_groups
    ELSE LET segment == column_segments[i]
             found == FindColumn(column_groups, 1, segment.x_start)
         IN IF found = 0
            THEN GroupByColumn(column_segments, i + 1,
                               Append(column_groups,
                                      [col_key |-> segment.x_start, segments |-> <<segment>>]))
            ELSE GroupByColumn(column_segments, i + 1,
                               [column_groups EXCEPT ![found].segments = Append(@, segment)])

\* The threshold is that of size 10 whatever the first character.
ParagraphThreshold_fixed(segment) == 150

\* detect_lines_and_paragraphs lines 420-423: font_size * 1.5 with the size of
\* the segment's first character, in tenths of a point.
ParagraphThreshold(segment) == Get(segment.chars[1], "size", 12) * 15

RECURSIVE SplitParagraphs(_, _, _, _)
\* detect_lines_and_paragraphs lines 407-432: consecutive segments of a column
\* form a paragraph until the vertical gap exceeds the threshold.
SplitParagraphs(segments, i, paragraphs, current_paragraph) ==
    IF i > Len(segments)
    THEN (IF current_paragraph # <<>> THEN Append(paragraphs, current_paragraph)
          ELSE paragraphs)
    ELSE LET segment == segments[i]
         IN IF current_paragraph = <<>>
            THEN SplitParagraphs(segments, i + 1, paragraphs, <<segment>>)
            ELSE LET prev_y == current_paragraph[Len(current_paragraph)].y_pos
                     y_gap == AbsDiff(prev_y, segment.y_pos)
                 IN IF y_gap > ParagraphThreshold(segment)
                    THEN SplitParagraphs(segments, i + 1,
                                         Append(paragraphs, current_paragraph), <<segment>>)
                    ELSE SplitParagraphs(segments, i + 1, paragraphs,
                                         Append(current_paragraph, segment))

RECURSIVE ColumnParagraphs(_, _)
\* detect_lines_and_paragraphs lines 400-432: the paragraphs of every column,
\* columns from left to right; each paragraph is the list of its segments
\* together with the index of its column.
ColumnParagraphs(sorted_columns, col_idx) ==
    IF col_idx > Len(sorted_columns) THEN <<>>
    ELSE LET segments == sorted_columns[col_idx].segments
             by_y == SortedAscBy(segments, [k \in 1..Len(segments) |-> 0 - segments[k].y_pos])
             paragraphs == SplitParagraphs(by_y, 1, <<>>, <<>>)
         IN [k \in 1..Len(paragraphs) |-> [column |-> col_idx - 1, segments |-> paragraphs[k]]]
                \o ColumnParagraphs(sorted_columns, col_idx + 1)

\* The columns are left in the order of their creation.
SortedColumns_unsorted(column_segments) == GroupByColumn(column_segments, 1, <<>>)

\* detect_lines_and_paragraphs lines 371-395 (step 3): sorted_columns, the
\* items of column_groups sorted by their key.
SortedColumns(column_segments) ==
    LET column_groups == GroupByColumn(column_segments, 1, <<>>)
    IN SortedAscBy(column_groups, [k \in 1..Len(column_groups) |-> column_groups[k].col_key])

\* detect_lines_and_paragraphs lines 371-432 (steps 3 and 4 up to the
\* grouping): the paragraphs as lists of segments.
SegmentParagraphs(column_segments) == ColumnParagraphs(SortedColumns(column_segments), 1)

RECURSIVE Concat(_)
\* The concatenation of a sequence of sequences.
Concat(seqs) == IF seqs = <<>> THEN <<>> ELSE Head(seqs) \o Concat(Tail(seqs))

\* not paragraph_text.strip()
IsBlank(text) == \A k \in 1..Len(text) : text[k] = " "

\* detect_lines_and_paragraphs line 465: first_char.get("size", 0)
ParagraphFontSize(first_char) == Get(first_char, "size", 0)

\* Every segment counts as a line.
DistinctLines_segments(paragraph) == Len(paragraph)

\* detect_lines_and_paragraphs lines 458-460: the number of distinct rounded
\* y positions of the segments of a paragraph.
DistinctLines(paragraph) ==
    Cardinality({Round1(paragraph[k].y_pos * 10) : k \in 1..Len(paragraph)})

\* detect_lines_and_paragraphs lines 437-472: the output record of a paragraph.
FormatParagraph(paragraph, col_idx) ==
    LET first_char == paragraph[1].chars[1]
        all_chars == Concat([k \in 1..Len(paragraph) |-> paragraph[k].chars])
        n == Len(all_chars)
    IN [text |-> Join([k \in 1..Len(paragraph) |-> paragraph[k].text], <<" ">>),
        font_name |-> Get(first_char, "fontname", ""),
        font_size |-> ParagraphFontSize(first_char),
        non_stroking_color |-> Get(first_char, "non_stroking_color", ""),
        stroking_color |-> Get(first_char, "stroking_color", ""),
        bounding_box |-> [x0 |-> SeqMin([k \in 1..n |-> all_chars[k].x0]),
                          y0 |-> SeqMin([k \in 1..n |-> all_chars[k].y0]),
                          x1 |-> SeqMax([k \in 1..n |-> all_chars[k].x1]),
                          y1 |-> SeqMax([k \in 1..n |-> all_chars[k].y1])],
        column |-> col_idx,
        num_lines |-> DistinctLines(paragraph),
        segments |-> Len(paragraph)]

\* The key of a sort by the pair (-major, minor), 0 <= minor < span.
DescendingThenAscending(major, minor, span) == (0 - major) * span + minor

\* detect_lines_and_paragraphs lines 435-479: the paragraphs whose text is not
\* blank, formatted, sorted by (-y1, x0).
FormatParagraphs(segment_paragraphs) ==
    LET kept == SelectSeq(segment_paragraphs,
                          LAMBDA p : ~IsBlank(Join([k \in 1..Len(p.segments) |->
                                                       p.segments[k].text], <<" ">>)))
        all_paragraphs == [k \in 1..Len(kept) |-> FormatParagraph(kept[k].segments, kept[k].column)]
        span == 1 + SeqMax(<<0>> \o [k \in 1..Len(all_paragraphs) |->
                                       all_paragraphs[k].bounding_box.x0])
    IN SortedAscBy(all_paragraphs,
                   [k \in 1..Len(all_paragraphs) |->
                       DescendingThenAscending(all_paragraphs[k].bounding_box.y1,
                                               all_paragraphs[k].bounding_box.x0, span)])

\* detect_lines_and_paragraphs(chars): the pair (lines, paragraphs).
detect_lines_and_paragraphs(chars) ==
    IF chars = <<>> THEN [lines |-> <<>>, paragraphs |-> <<>>]
    ELSE [lines |-> <<>>,
          paragraphs |-> FormatParagraphs(SegmentParagraphs(ColumnSegments(chars)))]

RECURSIVE DetectColumnsLoop(_, _, _, _, _)
\* detect_columns lines 531-539: last_x1 is recorded as a boundary before
\* every character that starts more than 3% of the page width after it.
DetectColumnsLoop(chars, i, last_x1, column_boundaries, page_width) ==
    IF i > Len(chars) THEN Append(column_boundaries, last_x1)
    ELSE DetectColumnsLoop(chars, i + 1, chars[i].x1,
                           IF (chars[i].x0 - last_x1) * 100 > page_width * 3
                           THEN Append(column_boundaries, last_x1)
                           ELSE column_boundaries,
                           page_width)

\* detect_columns(chars, page_width)
detect_columns(chars, page_width) ==
    DetectColumnsLoop(SortedAscBy(chars, [k \in 1..Len(chars) |-> chars[k].x0]),
                      1, 0, <<>>, page_width)

RECURSIVE ClosestColumn(_, _, _, _)
\* assign_to_columns lines 567-572: min(range(...), key=...) returns the first
\* index of least distance between the middle of the column and x0.
ClosestColumn(column_boundaries, x0, i, best) ==
    IF i > Len(column_boundaries) - 1 THEN best
    ELSE ClosestColumn(column_boundaries, x0, i + 1,
                       IF AbsDiff(column_boundaries[i] + column_boundaries[i + 1], 2 * x0)
                              < AbsDiff(column_boundaries[best] + column_boundaries[best + 1], 2 * x0)
                       THEN i ELSE best)

\* assign_to_columns lines 558-573: the column of a character, given at least
\* two boundaries.
ColumnOf(char, column_boundaries) ==
    LET within == {i \in 1..(Len(column_boundaries) - 1) :
                      column_boundaries[i] <= char.x0 /\ char.x0 < column_boundaries[i + 1]}
    IN IF within # {} THEN CHOOSE i \in within : \A j \in within : i <= j
       ELSE ClosestColumn(column_boundaries, char.x0, 2, 1)

\* assign_to_columns(chars, column_boundaries), given at least two boundaries
\* or no character.
assign_to_columns(chars, column_boundaries) ==
    [i \in 1..(Len(column_boundaries) - 1) |->
        SelectSeq(chars, LAMBDA c : ColumnOf(c, column_boundaries) = i)]

\* min() of the empty range is evaluated even when there is no character.
AssignRaises_eager(chars, column_boundaries) == Len(column_boundaries) < 2

\* assign_to_columns lines 567-572: with a single boundary there is no
\* column, and min() of the empty range raises ValueError for the first
\* character.
AssignRaises(chars, column_boundaries) == chars # <<>> /\ Len(column_boundaries) < 2

\* group_characters_for_translation lines 605-613
StartsNewCluster(char, last_char) ==
    \/ AbsDiff(char.y0, last_char.y0) * 10 > char.size * 800
    \/ AbsDiff(char.x0, last_char.x1) > char.size * 600
    \/ AbsDiff(char.size, last_char.size) > 2

RECURSIVE SplitClusters(_, _, _, _)
\* group_characters_for_translation lines 600-620
SplitClusters(column, i, clusters, current_cluster) ==
    IF i > Len(column)
    THEN (IF current_cluster # <<>> THEN Append(clusters, current_cluster) ELSE clusters)
    ELSE IF current_cluster = <<>>
         THEN SplitClusters(column, i + 1, clusters, <<column[i]>>)
         ELSE IF StartsNewCluster(column[i], current_cluster[Len(current_cluster)])
              THEN SplitClusters(column, i + 1, Append(clusters, current_cluster), <<column[i]>>)
              ELSE SplitClusters(column, i + 1, clusters, Append(current_cluster, column[i]))

\* group_characters_for_translation line 598:
\* sorted(column, key=lambda c: (-c["y0"], c["x0"]))
SortedColumn(column) ==
    LET span == 1 + SeqMax(<<0>> \o [k \in 1..Len(column) |-> column[k].x0])
    IN SortedAscBy(column, [k \in 1..Len(column) |->
                               DescendingThenAscending(column[k].y0, column[k].x0, span)])

\* group_characters_for_translation lines 605-607: char["size"] of a
\* character and of its predecessor in the column is read without a default.
ClusterRaises(column) ==
    \E k \in 2..Len(column) : "size" \notin DOMAIN column[k] \/ "size" \notin DOMAIN column[k - 1]

\* group_characters_for_translation lines 624-639: the group of a cluster.
\* The centers (x0 + x1) / 2 and (y0 + y1) / 2 are whole numbers of
\* hundredths for the coordinates of the model.
ClusterGroup(cluster, page_height) ==
    LET n == Len(cluster)
        x0 == SeqMin([k \in 1..n |-> cluster[k].x0])
        y0 == SeqMin([k \in 1..n |-> cluster[k].y0])
        x1 == SeqMax([k \in 1..n |-> cluster[k].x1])
        y1 == SeqMax([k \in 1..n |-> cluster[k].y1])
        centers == [center_x |-> (x0 + x1) \div 2, center_y |-> (y0 + y1) \div 2]
    IN [text |-> [k \in 1..n |-> cluster[k].text],
        bbox |-> [x0 |-> x0, y0 |-> y0, x1 |-> x1, y1 |-> y1],
        characters |-> cluster,
        center_x |-> centers.center_x,
        center_y |-> centers.center_y,
        reading_order_score |-> calculate_reading_order_score(centers, page_height)]

RECURSIVE ColumnGroups(_, _)
\* group_characters_for_translation lines 593-639: final_groups before sorting.
ColumnGroups(columns, page_height) ==
    IF columns = <<>> THEN <<>>
    ELSE LET clusters == SplitClusters(SortedColumn(Head(columns)), 1, <<>>, <<>>)
         IN [k \in 1..Len(clusters) |-> ClusterGroup(clusters[k], page_height)]
                \o ColumnGroups(Tail(columns), page_height)

\* group_characters_for_translation(chars, page_width, page_height): the
\* sorted groups, or the exception the call ends with.
group_characters_for_translation(chars, page_width, page_height) ==
    LET column_boundaries == detect_columns(chars, page_width)
        columns == assign_to_columns(chars, column_boundaries)
    IN IF AssignRaises(chars, column_boundaries) THEN [exception |-> "ValueError"]
       ELSE IF \E i \in 1..Len(columns) : ClusterRaises(SortedColumn(columns[i]))
            THEN [exception |-> "KeyError"]
            ELSE sort_groups_by_reading_order(ColumnGroups(columns, page_height), page_height)

\* group_characters_for_translation lines 585-607: the call ends with an
\* exception, raised by min() in assign_to_columns or by char["size"].
GroupingRaises(chars, page_width) ==
    LET column_boundaries == detect_columns(chars, page_width)
        columns == assign_to_columns(chars, column_boundaries)
    IN \/ AssignRaises(chars, column_boundaries)
       \/ \E i \in 1..Len(columns) : ClusterRaises(SortedColumn(columns[i]))

(***************************************************************************)
(* overlay_generator.py                                                    *)
(***************************************************************************)

\* The font size is drawn as given.
DrawnFontSize_unreduced(font_size) == font_size * 10

\* draw_fitted_text line 569: adjusted_font_size = font_size * 0.9, in tenths
\* of a point.
DrawnFontSize(font_size) == font_size * 9

\* draw_fitted_text: the font size set on the canvas and the lines drawn.
draw_fitted_text(paragraph, fitted_lines, x, y, font_size) ==
    [page_number |-> paragraph.page_number, x |-> x, y |-> y,
     font_size |-> font_size,
     adjusted_font_size |-> DrawnFontSize(font_size),
     lines |-> fitted_lines]

RECURSIVE OverlayPage(_, _)
\* generate_overlay lines 655-697: the paragraphs of one page, in list order;
\* a paragraph without fitted lines is masked but not drawn.
OverlayPage(paragraphs, page_num) ==
    IF paragraphs = <<>> THEN <<>>
    ELSE LET para == Head(paragraphs)
             font_size == para.scaled_font_size
             drawn == IF para.page_number = page_num /\ para.fitted_lines # <<>>
                      THEN <<draw_fitted_text(para, para.fitted_lines, para.bounding_box.x0,
                                              para.bounding_box.y0, font_size)>>
                      ELSE <<>>
         IN drawn \o OverlayPage(Tail(paragraphs), page_num)

RECURSIVE OverlayPages(_, _)
\* generate_overlay lines 651-700: "for page_num in sorted(pages.keys())".
OverlayPages(paragraphs, page_nums) ==
    IF page_nums = {} THEN <<>>
    ELSE LET page_num == CHOOSE n \in page_nums : \A m \in page_nums : n <= m
         IN OverlayPage(paragraphs, page_num)
                \o OverlayPages(paragraphs, page_nums \ {page_num})

\* generate_overlay(paragraphs): the draw_fitted_text calls, page by page in
\* ascending page number.
generate_overlay(paragraphs) ==
    OverlayPages(paragraphs, {paragraphs[i].page_number : i \in 1..Len(paragraphs)})

(***************************************************************************)
(* Specification of the calls of wrap_text: the initial state holds the    *)
(* arguments of one call, the action runs the function on them.            *)
(***************************************************************************)
WrapArgs ==
    [text : Texts, available_width : AvailableWidths, max_lines : 1..MaxLines,
     font_size : FontSizes, pdf_standard_char_width : CharWidths]

InitWrap ==
    /\ op = "wrap_text"
    /\ args \in WrapArgs
    /\ pc = "call"
    /\ result = <<>>
    /\ wrap_calls = <<>>

CallWrapText ==
    /\ op = "wrap_text"
    /\ pc = "call"
    /\ result' = wrap_text(args.text, args.available_width, args.max_lines,
                           args.font_size, args.pdf_standard_char_width)
    /\ wrap_calls' = <<args.font_size>>
    /\ pc' = "done"
    /\ UNCHANGED <<op, args>>

NextWrap == CallWrapText

SpecWrap == InitWrap /\ [][NextWrap]_vars

(***************************************************************************)
(* Specification of the fitting stage: a call of fit_text_to_bounds, or a  *)
(* call of process_paragraphs whose result is then handed to               *)
(* generate_overlay, as the pipeline does.                                 *)
(***************************************************************************)
FitArgs ==
    [text : Texts, available_width : AvailableWidths, available_height : AvailableHeights,
     font_size : FontSizes, num_lines : 0..MaxLines,
     font_metrics : [standard_char_width : CharWidths]]

InitFit ==
    /\ \/ op = "fit_text_to_bounds" /\ args \in FitArgs
       \/ op = "process_paragraphs" /\ args \in [paragraphs : ParagraphLists]
    /\ pc = "call"
    /\ result = <<>>
    /\ wrap_calls = <<>>

CallFitTextToBounds ==
    /\ op = "fit_text_to_bounds"
    /\ pc = "call"
    /\ result' = fit_text_to_bounds(args.text, args.available_width, args.available_height,
                                    args.font_size, args.num_lines, args.font_metrics)
    /\ wrap_calls' = FitWrapCalls(args.text, args.font_size, args.num_lines)
    /\ pc' = "done"
    /\ UNCHANGED <<op, args>>

CallProcessParagraphs ==
    /\ op = "process_paragraphs"
    /\ pc = "call"
    /\ result' = process_paragraphs(args.paragraphs)
    /\ args' = [args EXCEPT !.paragraphs =
                    [i \in 1..Len(args.paragraphs) |-> ProcessedInput(args.paragraphs[i])]]
    /\ pc' = "done"
    /\ UNCHANGED <<op, wrap_calls>>

CallGenerateOverlay ==
    /\ op = "process_paragraphs"
    /\ pc = "done"
    /\ op' = "generate_overlay"
    /\ args' = [paragraphs |-> result]
    /\ result' = generate_overlay(result)
    /\ UNCHANGED <<pc, wrap_calls>>

NextFit == CallFitTextToBounds \/ CallProcessParagraphs \/ CallGenerateOverlay

SpecFit == InitFit /\ [][NextFit]_vars

(***************************************************************************)
(* Specification of the downstream stages, as the pipeline chains them:    *)
(* translate_paragraphs, then process_paragraphs on its result, then       *)
(* generate_overlay.                                                       *)
(***************************************************************************)
InitPipeline ==
    /\ op = "translate_paragraphs"
    /\ args \in [paragraphs : ParagraphLists, target_language : TargetLanguages]
    /\ pc = "call"
    /\ result = <<>>
    /\ wrap_calls = <<>>

CallTranslateParagraphs ==
    /\ op = "translate_paragraphs"
    /\ pc = "call"
    /\ \E translated_blocks \in
              BatchTranslateOutcomes([i \in 1..Len(args.paragraphs) |-> args.paragraphs[i].text],
                                     TranslatedTexts) :
           result' = translate_paragraphs(args.paragraphs, args.target_language, translated_blocks)
    /\ args' = [args EXCEPT !.paragraphs =
                    [i \in 1..Len(args.paragraphs) |-> TranslatedInput(args.paragraphs[i])]]
    /\ pc' = "done"
    /\ UNCHANGED <<op, wrap_calls>>

\* The translated paragraphs are handed to process_paragraphs.
PassToFitter ==
    /\ op = "translate_paragraphs"
    /\ pc = "done"
    /\ op' = "process_paragraphs"
    /\ args' = [paragraphs |-> result]
    /\ pc' = "call"
    /\ result' = <<>>
    /\ UNCHANGED wrap_calls

NextPipeline ==
    CallTranslateParagraphs \/ PassToFitter \/ CallProcessParagraphs \/ CallGenerateOverlay

SpecPipeline == InitPipeline /\ [][NextPipeline]_vars

(***************************************************************************)
(* Specification of translate_text: one call, step by step; result holds   *)
(* the locals of the call.                                                 *)
(***************************************************************************)
InitTranslate ==
    /\ op = "translate_text"
    /\ args \in TranslateArgs
    /\ pc = "call"
    /\ result = TranslateFrame(args.retry_delay)
    /\ wrap_calls = <<>>

\* translate_text lines 88-90
ReturnBlock ==
    /\ op = "translate_text"
    /\ pc = "call"
    /\ IsEmptyOrSpace(args.text_block)
    /\ result' = Return(result, args.text_block)
    /\ pc' = "done"
    /\ UNCHANGED <<op, args, wrap_calls>>

\* translate_text lines 93-96
ReturnCached ==
    /\ op = "translate_text"
    /\ pc = "call"
    /\ ~IsEmptyOrSpace(args.text_block)
    /\ args.cached_translation # <<>>
    /\ result' = Return(result, args.cached_translation)
    /\ pc' = "done"
    /\ UNCHANGED <<op, args, wrap_calls>>

\* translate_text lines 99-102: the client is created.
CreateClient ==
    /\ op = "translate_text"
    /\ pc = "call"
    /\ ~IsEmptyOrSpace(args.text_block)
    /\ args.cached_translation = <<>>
    /\ pc' = "attempt"
    /\ UNCHANGED <<op, args, result, wrap_calls>>

\* translate_text lines 103-105: the client cannot be created; the exception
\* leaves the function.
RaiseFromSession ==
    /\ op = "translate_text"
    /\ pc = "call"
    /\ ~IsEmptyOrSpace(args.text_block)
    /\ args.cached_translation = <<>>
    /\ result' = [result EXCEPT !.outcome = "raised"]
    /\ pc' = "done"
    /\ UNCHANGED <<op, args, wrap_calls>>

\* translate_text lines 109-125
ClientResponds ==
    /\ op = "translate_text"
    /\ pc = "attempt"
    /\ ~LoopExhausted(result, args.max_retries)
    /\ \E translated_text \in TranslatedTexts :
           result' = AfterResponse(result, args.text_block, translated_text,
                                   args.target_language)
    /\ pc' = "done"
    /\ UNCHANGED <<op, args, wrap_calls>>

\* translate_text lines 127-139
ClientRaisesClientError ==
    /\ op = "translate_text"
    /\ pc = "attempt"
    /\ ~LoopExhausted(result, args.max_retries)
    /\ result' = AfterClientError(result, args.text_block, args.max_retries)
    /\ pc' = IF result'.outcome = "running" THEN "attempt" ELSE "done"
    /\ UNCHANGED <<op, args, wrap_calls>>

\* translate_text lines 141-143
ClientRaisesException ==
    /\ op = "translate_text"
    /\ pc = "attempt"
    /\ ~LoopExhausted(result, args.max_retries)
    /\ result' = AfterException(result, args.text_block)
    /\ pc' = "done"
    /\ UNCHANGED <<op, args, wrap_calls>>

\* translate_text line 107 and the end of the function: the loop ends
\* without a return statement, the call returns None.
ReturnNone ==
    /\ op = "translate_text"
    /\ pc = "attempt"
    /\ LoopExhausted(result, args.max_retries)
    /\ result' = [result EXCEPT !.outcome = "none"]
    /\ pc' = "done"
    /\ UNCHANGED <<op, args, wrap_calls>>

NextTranslate ==
    \/ ReturnBlock
    \/ ReturnCached
    \/ CreateClient
    \/ RaiseFromSession
    \/ ClientResponds
    \/ ClientRaisesClientError
    \/ ClientRaisesException
    \/ ReturnNone

SpecTranslate == InitTranslate /\ [][NextTranslate]_vars

(***************************************************************************)
(* Specification of the layout stage: a call of detect_columns_by_gaps or  *)
(* of sort_groups_by_reading_order.                                        *)
(***************************************************************************)
InitLayout ==
    /\ \/ op = "detect_columns_by_gaps" /\ args \in [chars : CharLists, page_width : PageWidths]
       \/ op = "sort_groups_by_reading_order"
              /\ args \in [groups : GroupLists, page_height : PageHeights]
    /\ pc = "call"
    /\ result = <<>>
    /\ wrap_calls = <<>>

CallDetectColumnsByGaps ==
    /\ op = "detect_columns_by_gaps"
    /\ pc = "call"
    /\ result' = detect_columns_by_gaps(args.chars, args.page_width)
    /\ pc' = "done"
    /\ UNCHANGED <<op, args, wrap_calls>>

CallSortGroupsByReadingOrder ==
    /\ op = "sort_groups_by_reading_order"
    /\ pc = "call"
    /\ result' = sort_groups_by_reading_order(args.groups, args.page_height)
    /\ pc' = "done"
    /\ UNCHANGED <<op, args, wrap_calls>>

NextLayout == CallDetectColumnsByGaps \/ CallSortGroupsByReadingOrder

SpecLayout == InitLayout /\ [][NextLayout]_vars

(***************************************************************************)
(* Specification of the font metrics.  Either extract_font_metrics reads   *)
(* the characters of a page one by one (args.char_data are the characters  *)
(* read so far, result the metrics map so far), or extract_text_metadata   *)
(* merges the metrics of one page after the other into the global map      *)
(* (args.pages are the page maps merged so far, result.font_metrics is     *)
(* all_pages_data["font_metrics"]).                                        *)
(***************************************************************************)

\* The metrics maps extract_font_metrics can return for a page.
PageMetrics == {extract_font_metrics(char_data) : char_data \in MergedCharLists}

InitMetrics ==
    /\ \/ op = "extract_font_metrics" /\ args = [char_data |-> <<>>] /\ result = <<>>
       \/ op = "extract_text_metadata" /\ args = [pages |-> <<>>]
              /\ result = [font_metrics |-> <<>>]
    /\ pc = "loop"
    /\ wrap_calls = <<>>

\* extract_font_metrics lines 26-71: one iteration of "for char in char_data".
ReadChar ==
    /\ op = "extract_font_metrics"
    /\ pc = "loop"
    /\ Len(args.char_data) < MaxPageChars
    /\ \E char \in MetricGlyphs :
           /\ args' = [char_data |-> Append(args.char_data, char)]
           /\ result' = CollectChar(result, char)
    /\ UNCHANGED <<op, pc, wrap_calls>>

\* extract_font_metrics line 78
ReturnFontMetrics ==
    /\ op = "extract_font_metrics"
    /\ pc = "loop"
    /\ pc' = "done"
    /\ UNCHANGED <<op, args, result, wrap_calls>>

\* extract_text_metadata lines 100-124: the metrics of the next page are
\* extracted and merged.
MergePage ==
    /\ op = "extract_text_metadata"
    /\ pc = "loop"
    /\ Len(args.pages) < MaxPages
    /\ \E font_metrics \in PageMetrics :
           /\ args' = [pages |-> Append(args.pages, font_metrics)]
           /\ result' = [font_metrics |-> MergeFontMetrics(result.font_metrics, font_metrics)]
    /\ UNCHANGED <<op, pc, wrap_calls>>

\* extract_text_metadata line 159
ReturnMetadata ==
    /\ op = "extract_text_metadata"
    /\ pc = "loop"
    /\ pc' = "done"
    /\ UNCHANGED <<op, args, result, wrap_calls>>

NextMetrics == ReadChar \/ ReturnFontMetrics \/ MergePage \/ ReturnMetadata

SpecMetrics == InitMetrics /\ [][NextMetrics]_vars

(***************************************************************************)
(* Specification of detect_lines_and_paragraphs: the characters are        *)
(* clustered into segments, the segments are assigned to columns and       *)
(* grouped into paragraphs, the                                            *)
(* paragraphs are formatted; result holds what the function has built so   *)
(* far.                                                                    *)
(***************************************************************************)
InitLines ==
    /\ op = "detect_lines_and_paragraphs"
    /\ args \in [chars : LineCharLists]
    /\ pc = "call"
    /\ result = <<>>
    /\ wrap_calls = <<>>

\* detect_lines_and_paragraphs lines 307-308
ReturnNoLines ==
    /\ op = "detect_lines_and_paragraphs"
    /\ pc = "call"
    /\ args.chars = <<>>
    /\ result' = detect_lines_and_paragraphs(args.chars)
    /\ pc' = "done"
    /\ UNCHANGED <<op, args, wrap_calls>>

\* detect_lines_and_paragraphs lines 312-367
ClusterLines ==
    /\ op = "detect_lines_and_paragraphs"
    /\ pc = "call"
    /\ args.chars # <<>>
    /\ result' = ColumnSegments(args.chars)
    /\ pc' = "segments"
    /\ UNCHANGED <<op, args, wrap_calls>>

\* detect_lines_and_paragraphs lines 371-395
AssignColumns ==
    /\ op = "detect_lines_and_paragraphs"
    /\ pc = "segments"
    /\ result' = SortedColumns(result)
    /\ pc' = "columns"
    /\ UNCHANGED <<op, args, wrap_calls>>

\* detect_lines_and_paragraphs lines 397-432
GroupSegments ==
    /\ op = "detect_lines_and_paragraphs"
    /\ pc = "columns"
    /\ result' = ColumnParagraphs(result, 1)
    /\ pc' = "paragraphs"
    /\ UNCHANGED <<op, args, wrap_calls>>

\* detect_lines_and_paragraphs lines 435-483
ReturnParagraphs ==
    /\ op = "detect_lines_and_paragraphs"
    /\ pc = "paragraphs"
    /\ result' = [lines |-> <<>>, paragraphs |-> FormatParagraphs(result)]
    /\ pc' = "done"
    /\ UNCHANGED <<op, args, wrap_calls>>

NextLines ==
    ReturnNoLines \/ ClusterLines \/ AssignColumns \/ GroupSegments \/ ReturnParagraphs

SpecLines == InitLines /\ [][NextLines]_vars

(***************************************************************************)
(* Specification of the stages, each called on its own on a small input:   *)
(* wrap_text, fit_text_to_bounds, process_paragraphs,                      *)
(* detect_columns_by_gaps, extract_font_metrics,                           *)
(* detect_lines_and_paragraphs and group_characters_for_translation.       *)
(***************************************************************************)
StageWrapArgs ==
    [text : ParagraphTexts, available_width : AvailableWidths, max_lines : 1..MaxLines,
     font_size : FontSizes, pdf_standard_char_width : CharWidths]

StageFitArgs ==
    [text : ParagraphTexts, available_width : AvailableWidths,
     available_height : AvailableHeights, font_size : FontSizes, num_lines : 0..MaxLines,
     font_metrics : [standard_char_width : CharWidths]]

StageCharLists == UNION {[1..n -> LineGlyphs] : n \in 0..MaxStageChars}

InitStages ==
    /\ \/ op = "wrap_text" /\ args \in StageWrapArgs
       \/ op = "fit_text_to_bounds" /\ args \in StageFitArgs
       \/ op = "process_paragraphs" /\ args \in [paragraphs : ParagraphLists]
       \/ op = "detect_columns_by_gaps" /\ args \in [chars : CharLists, page_width : PageWidths]
       \/ op = "extract_font_metrics" /\ args \in [char_data : MergedCharLists]
       \/ op = "detect_lines_and_paragraphs" /\ args \in [chars : StageCharLists]
       \/ /\ op = "group_characters_for_translation"
          /\ \E page \in PageSizes :
                 args \in [chars : StageCharLists, page_width : {page.page_width},
                           page_height : {page.page_height}]
    /\ pc = "call"
    /\ result = <<>>
    /\ wrap_calls = <<>>

\* extract_font_metrics lines 14-78, as one step.
CallExtractFontMetrics ==
    /\ op = "extract_font_metrics"
    /\ pc = "call"
    /\ result' = extract_font_metrics(args.char_data)
    /\ pc' = "done"
    /\ UNCHANGED <<op, args, wrap_calls>>

CallGroupCharacters ==
    /\ op = "group_characters_for_translation"
    /\ pc = "call"
    /\ result' = group_characters_for_translation(args.chars, args.page_width, args.page_height)
    /\ pc' = IF GroupingRaises(args.chars, args.page_width) THEN "raised" ELSE "done"
    /\ UNCHANGED <<op, args, wrap_calls>>

NextStages ==
    \/ CallWrapText
    \/ CallFitTextToBounds
    \/ CallProcessParagraphs
    \/ CallDetectColumnsByGaps
    \/ CallExtractFontMetrics
    \/ NextLines
    \/ CallGroupCharacters

SpecStages == InitStages /\ [][NextStages]_vars

(***************************************************************************)
(* Properties of wrap_text (checked under SpecWrap).                       *)
(***************************************************************************)
Returned(f) == op = f /\ pc = "done"

\* The estimated width, in tenths of a point, of a line of the current call.
LineWidth(line) == estimate_text_width(line, args.font_size, args.pdf_standard_char_width)

\* A word that, alone on a line, exceeds the wrap limit 0.99 * available_width.
Overlong(word) == LineWidth(word) * 10 > args.available_width * 99

IsPrefix(s, t) == Len(s) <= Len(t) /\ s = SubSeq(t, 1, Len(s))

InputWords == Split(args.text)

\* The part of the first word that break_long_word cuts off, <<>> if none.
FirstWordPart ==
    LET words == InputWords
    IN IF words # <<>> /\ Overlong(words[1]) /\ Len(words[1]) > 1
       THEN break_long_word(words[1], args.available_width, args.font_size,
                            args.pdf_standard_char_width)
       ELSE <<>>

\* The tokens wrap_text has to place: the input words, the first of them
\* replaced by its hyphenated part and its remainder when it is split.
ExpectedTokens ==
    LET words == InputWords
        part == FirstWordPart
    IN IF part # <<>>
       THEN <<part, DropFirst(words[1], Len(RStripHyphen(part)))>> \o Tail(words)
       ELSE words

\* C2: the result of wrap_text has at most max_lines lines.
C2_LineCountWithinMaxLines ==
    Returned("wrap_text") => Len(result.lines) <= args.max_lines

C8_OverlongWordKeptWhole ==
    (Returned("wrap_text") /\ ~result.is_truncated) =>
        \A i \in 1..Len(InputWords) :
            Overlong(InputWords[i]) => \E k \in 1..Len(result.lines) : result.lines[k] = InputWords[i]

\* C8 amended: the output lines hold, in order, the input words, except
\* that an overlong first word of more than one character is replaced by the
\* part break_long_word returns (when it returns one) followed by its
\* remainder; that part is the first line and every overlong token is alone
\* on its line; is_truncated is true exactly when some of these tokens are
\* missing from the output (max_lines >= 1).
C8_OnlyFirstWordSplit ==
    Returned("wrap_text") =>
        LET toks == AllWords(result.lines)
        IN /\ IsPrefix(toks, ExpectedTokens)
           /\ FirstWordPart # <<>> => result.lines[1] = FirstWordPart
           /\ result.is_truncated <=> (toks # ExpectedTokens)
           /\ \A k \in 1..Len(result.lines) :
                  LET lineToks == Split(result.lines[k])
                  IN \A j \in 1..Len(lineToks) :
                         Overlong(lineToks[j]) => result.lines[k] = lineToks[j]

\* C8 witness: an untruncated result whose first word was split and which
\* has a later overlong word, whole on a line of its own.
C8_Witness ==
    /\ Returned("wrap_text")
    /\ ~result.is_truncated
    /\ FirstWordPart # <<>>
    /\ result.lines[1] = FirstWordPart
    /\ \E i \in 2..Len(InputWords) :
           /\ Overlong(InputWords[i])
           /\ \E k \in 3..Len(result.lines) : result.lines[k] = InputWords[i]

(***************************************************************************)
(* Properties of the fitting stage (checked under SpecFit).                *)
(***************************************************************************)

\* The floor max(4.0, 0.3 * font_size), in tenths of a point.
FontSizeFloor(font_size) == Max(40, 3 * font_size)

\* C4 as stated: the size returned by fit_text_to_bounds is at least
\* max(4.0, 0.3 * original font size), and wrap_text is tried at most 10 times.
C4_FloorAndIterationCap ==
    Returned("fit_text_to_bounds") =>
        /\ result.scaled_font_size * 10 >= FontSizeFloor(args.font_size)
        /\ Len(wrap_calls) <= 10

\* C4 amended: fit_text_to_bounds returns the original font size unchanged,
\* so the returned size is at least 0.3 * original and reaches the 4.0 floor
\* whenever the original size does; wrap_text is tried at most once.
C4_SizeKeptOneAttempt ==
    Returned("fit_text_to_bounds") =>
        /\ result.scaled_font_size = args.font_size
        /\ result.scaled_font_size * 10 >= 3 * args.font_size
        /\ args.font_size >= 4 => result.scaled_font_size * 10 >= FontSizeFloor(args.font_size)
        /\ Len(wrap_calls) <= 1

\* C4 witness: a multi-line call with an original size below 4.0 that did
\* wrap the text.
C4_Witness ==
    /\ Returned("fit_text_to_bounds")
    /\ args.font_size < 4
    /\ Len(wrap_calls) = 1
    /\ result.fit_method = "multi_line"

\* C5 as stated: a truncated result is returned only after 10 wrapping
\* attempts or when a further cut to 80% would go below the floor.
C5_TruncatedOnlyAfterReduction ==
    (Returned("fit_text_to_bounds") /\ result.is_truncated) =>
        \/ Len(wrap_calls) = 10
        \/ /\ wrap_calls # <<>>
           /\ wrap_calls[Len(wrap_calls)] * 8 < FontSizeFloor(args.font_size)

\* C5 amended: when wrapping a multi-line paragraph at the original font
\* size is truncated, fit_text_to_bounds does not reduce the size and does
\* not wrap again: it returns that single attempt, with is_truncated = true,
\* the original font size and fit_method = "multi_line".
C5_TruncatedAfterSingleAttempt ==
    (Returned("fit_text_to_bounds") /\ result.is_truncated) =>
        LET attempt == wrap_text(args.text, args.available_width, args.num_lines,
                                 args.font_size, args.font_metrics.standard_char_width)
        IN /\ wrap_calls = <<args.font_size>>
           /\ args.num_lines >= 2
           /\ attempt.is_truncated
           /\ result.lines = attempt.lines
           /\ result.fitted_text = attempt.fitted_text
           /\ result.scaled_font_size = args.font_size
           /\ result.fit_method = "multi_line"

\* C5 witness: a truncated result at a size from which a cut to 80% would
\* still be above the floor.
C5_Witness ==
    /\ Returned("fit_text_to_bounds")
    /\ result.is_truncated
    /\ args.font_size * 8 >= FontSizeFloor(args.font_size)

C7_SingleLineSkipsWrapping ==
    (Returned("fit_text_to_bounds") /\ args.text # <<>> /\ args.num_lines \in {0, 1}) =>
        /\ result.lines = <<args.text>>
        /\ result.fitted_text = args.text
        /\ ~result.is_truncated
        /\ result.fit_method = "single_line"
        /\ wrap_calls = <<>>

\* C7 witness: a single-line call, without a line count, whose text
\* wrap_text would have split over several lines.
C7_Witness ==
    /\ Returned("fit_text_to_bounds")
    /\ args.num_lines = 0
    /\ result.fit_method = "single_line"
    /\ Len(wrap_text(args.text, args.available_width, MaxLines, args.font_size,
                      args.font_metrics.standard_char_width).lines) >= 2

(***************************************************************************)
(* Properties of the layout stage (checked under SpecLayout).              *)
(***************************************************************************)

\* a <= b for fractions with positive denominators.
FractionLeq(a, b) == a.num * b.den <= b.num * a.den

\* C1: for a non-empty character list the boundaries returned by
\* detect_columns_by_gaps are non-decreasing, start at 0, end at page_width
\* and are at least two.
C1_BoundariesOrdered ==
    (Returned("detect_columns_by_gaps") /\ args.chars # <<>>) =>
        /\ Len(result) >= 2
        /\ result[1] = Fraction(0, 1)
        /\ result[Len(result)] = Fraction(args.page_width, 1)
        /\ \A k \in 1..(Len(result) - 1) : FractionLeq(result[k], result[k + 1])

\* The score of the reading-order contract: (page_height - center_y) * 1000 + center_x.
ContractScore(g) == (args.page_height - g.center_y) * 1000 + g.center_x

\* C9: the output of sort_groups_by_reading_order is a permutation of its
\* input, each group carrying its score, in descending order of score, and
\* groups of equal score keep their input order.
C9_StableDescendingScore ==
    Returned("sort_groups_by_reading_order") =>
        LET n == Len(args.groups)
        IN /\ Len(result) = n
           /\ \A k \in 1..n : result[k].reading_order_score = ContractScore(result[k])
           /\ \A k \in 1..(n - 1) : ContractScore(result[k]) >= ContractScore(result[k + 1])
           /\ \E perm \in [1..n -> 1..n] :
                  /\ \A j, k \in 1..n : j # k => perm[j] # perm[k]
                  /\ \A k \in 1..n :
                         /\ result[k].text = args.groups[perm[k]].text
                         /\ result[k].center_x = args.groups[perm[k]].center_x
                         /\ result[k].center_y = args.groups[perm[k]].center_y
                  /\ \A j, k \in 1..n :
                         (j < k /\ ContractScore(result[j]) = ContractScore(result[k]))
                             => perm[j] < perm[k]

\* C9 witness: a sorted list in which two different groups have the same
\* score and in which a group was moved in front of one that preceded it.
C9_Witness ==
    /\ Returned("sort_groups_by_reading_order")
    /\ \E j, k \in 1..Len(result) :
           /\ j < k
           /\ result[j].text # result[k].text
           /\ ContractScore(result[j]) = ContractScore(result[k])
    /\ \E k \in 1..Len(result) :
           \/ result[k].text # args.groups[k].text
           \/ result[k].center_x # args.groups[k].center_x
           \/ result[k].center_y # args.groups[k].center_y

\* C10: in the output of sort_groups_by_reading_order a group with a larger
\* center_y (higher on the page) comes before one with a smaller center_y,
\* and of two groups with the same center_y the one with the smaller
\* center_x comes first.
C10_TopToBottomLeftToRight ==
    Returned("sort_groups_by_reading_order") =>
        \A j, k \in 1..Len(result) :
            j < k =>
                \/ result[j].center_y > result[k].center_y
                \/ /\ result[j].center_y = result[k].center_y
                   /\ result[j].center_x <= result[k].center_x

(***************************************************************************)
(* Properties of the font metrics (checked under SpecMetrics).             *)
(***************************************************************************)

\* The metrics map of the running function: the page map of
\* extract_font_metrics, the global map of extract_text_metadata.
CurrentMetrics == IF op = "extract_font_metrics" THEN result ELSE result.font_metrics

\* The frozen widths of a metrics map: the keys whose width is set, each with
\* its width.
FrozenWidths(font_metrics) ==
    [k \in {j \in DOMAIN font_metrics : font_metrics[j].standard_char_width # 0} |->
        font_metrics[k].standard_char_width]

\* C11: a standard_char_width that is set for a key is the same after every
\* later character of the extract_font_metrics call and after every later
\* page merged into the global map.
C11_WidthWriteOnce ==
    [][\A k \in DOMAIN FrozenWidths(CurrentMetrics) :
           /\ k \in DOMAIN FrozenWidths(CurrentMetrics')
           /\ FrozenWidths(CurrentMetrics')[k] = FrozenWidths(CurrentMetrics)[k]]_vars

\* C11 witness: the global map keeps the width frozen by the first page
\* although the second page froze a different width for the same key.
C11_Witness ==
    /\ op = "extract_text_metadata"
    /\ Len(args.pages) = 2
    /\ \E k \in DOMAIN FrozenWidths(args.pages[1]) \cap DOMAIN FrozenWidths(args.pages[2]) :
           /\ FrozenWidths(args.pages[1])[k] # FrozenWidths(args.pages[2])[k]
           /\ result.font_metrics[k].standard_char_width = FrozenWidths(args.pages[1])[k]

\* 0.2 * font_size <= width <= 1.2 * font_size
WithinFontRange(width, font_size) == 2 * font_size <= 10 * width /\ 10 * width <= 12 * font_size

\* C12: in the page map and in the global map every width that is set, and
\* every width held in a sample buffer, lies within
\* [0.2 * font_size, 1.2 * font_size] of its entry.
C12_WidthWithinRange ==
    \A k \in DOMAIN CurrentMetrics :
        LET metrics == CurrentMetrics[k]
        IN /\ metrics.standard_char_width # 0 =>
                  WithinFontRange(metrics.standard_char_width, metrics.font_size)
           /\ \A i \in 1..Len(metrics.char_samples) :
                  WithinFontRange(metrics.char_samples[i].width, metrics.font_size)

\* C12 witness: a page on which a width is frozen for a key although the
\* first visible character of that key had a width outside the range.
C12_Witness ==
    /\ op = "extract_font_metrics"
    /\ args.char_data # <<>>
    /\ LET char == args.char_data[1]
           k == FontKey(Get(char, "fontname", "Unknown"), Get(char, "size", 12))
       IN /\ IsVisibleText(char.text)
          /\ ~WithinFontRange(char.x1 - char.x0, Get(char, "size", 12))
          /\ result[k].standard_char_width # 0

\* C13: the frozen widths of the global map after two pages were merged are
\* those the merge in the opposite order gives.
C13_MergeOrderIndependent ==
    (op = "extract_text_metadata" /\ Len(args.pages) = 2) =>
        FrozenWidths(result.font_metrics)
            = FrozenWidths(MergeFontMetrics(MergeFontMetrics(<<>>, args.pages[2]), args.pages[1]))

\* C14: merging, as the next page, a metrics map equal to the one merged
\* last leaves the global map as it is.
C14_MergeIdempotent ==
    [][(/\ op = "extract_text_metadata"
        /\ args.pages # <<>>
        /\ args'.pages = Append(args.pages, args.pages[Len(args.pages)]))
           => result' = result]_vars

(***************************************************************************)
(* Properties of the column boundaries (checked under SpecLayout).         *)
(***************************************************************************)

\* The gap groups detect_columns_by_gaps forms for the characters of the
\* call, in ascending position.
CallGapGroups ==
    LET sorted_chars == SortedAscBy(args.chars, [i \in 1..Len(args.chars) |-> args.chars[i].x0])
        gaps == FindGaps(sorted_chars, 2)
        sorted_gaps == SortedAscBy(gaps, [i \in 1..Len(gaps) |-> gaps[i].position2])
    IN IF gaps = <<>> THEN <<>> ELSE GroupGaps(sorted_gaps, 2, <<>>, <<sorted_gaps[1]>>)

\* The content height max(y1) - min(y0) over the characters of the call.
ContentHeight ==
    SeqMax([k \in 1..Len(args.chars) |-> args.chars[k].y1])
        - SeqMin([k \in 1..Len(args.chars) |-> args.chars[k].y0])

GroupSizeSum(gap_group) == SeqSum([k \in 1..Len(gap_group) |-> gap_group[k].size])

\* The average position of a gap group.
GroupPosition(gap_group) ==
    Fraction(SeqSum([k \in 1..Len(gap_group) |-> gap_group[k].position2]), 2 * Len(gap_group))

\* The vertical coverage of the group exceeds 10% of the content height.
CoversContent(gap_group) ==
    LET n == Len(gap_group)
    IN (SeqMax([k \in 1..n |-> gap_group[k].y_hi]) - SeqMin([k \in 1..n |-> gap_group[k].y_lo])) * 10
           > ContentHeight

\* The average gap size exceeds 10.
ExceedsAbsolute(gap_group) == GroupSizeSum(gap_group) > 10 * Len(gap_group)

\* The average gap size exceeds 0.05 * page_width.
ExceedsRelative(gap_group) == GroupSizeSum(gap_group) * 20 > args.page_width * Len(gap_group)

\* The boundaries strictly between the first and the last one.
InteriorBoundaries == SubSeq(result, 2, Len(result) - 1)

\* C15 as stated: every boundary between 0 and page_width is the position
\* of a gap group whose average size exceeds max(10, 0.05 * page_width) and
\* whose coverage exceeds 10% of the content height.
C15_AcceptedAboveMax ==
    (Returned("detect_columns_by_gaps") /\ args.chars # <<>>) =>
        \A b \in 1..Len(InteriorBoundaries) :
            \E g \in 1..Len(CallGapGroups) :
                /\ InteriorBoundaries[b] = GroupPosition(CallGapGroups[g])
                /\ ExceedsAbsolute(CallGapGroups[g])
                /\ ExceedsRelative(CallGapGroups[g])
                /\ CoversContent(CallGapGroups[g])

\* C15 amended: the boundaries between 0 and page_width are, in order, the
\* positions of exactly the gap groups whose average size exceeds 10 or
\* exceeds 0.05 * page_width and whose coverage exceeds 10% of the content
\* height.
C15_AcceptedAboveEither ==
    (Returned("detect_columns_by_gaps") /\ args.chars # <<>>) =>
        LET accepted == SelectSeq([g \in 1..Len(CallGapGroups) |-> g],
                                  LAMBDA g : /\ ExceedsAbsolute(CallGapGroups[g])
                                                \/ ExceedsRelative(CallGapGroups[g])
                                             /\ CoversContent(CallGapGroups[g]))
        IN InteriorBoundaries = [b \in 1..Len(accepted) |-> GroupPosition(CallGapGroups[accepted[b]])]

\* C15 witness: a call with an accepted group that exceeds only one of the
\* two size thresholds and a group that is rejected for its coverage alone.
C15_Witness ==
    /\ Returned("detect_columns_by_gaps")
    /\ \E g, h \in 1..Len(CallGapGroups) :
           /\ ExceedsAbsolute(CallGapGroups[g]) # ExceedsRelative(CallGapGroups[g])
           /\ CoversContent(CallGapGroups[g])
           /\ \E b \in 1..Len(InteriorBoundaries) :
                  InteriorBoundaries[b] = GroupPosition(CallGapGroups[g])
           /\ ExceedsAbsolute(CallGapGroups[h])
           /\ ~CoversContent(CallGapGroups[h])
           /\ \A b \in 1..Len(InteriorBoundaries) :
                  InteriorBoundaries[b] # GroupPosition(CallGapGroups[h])

(***************************************************************************)
(* Properties of detect_lines_and_paragraphs (checked under SpecLines).    *)
(***************************************************************************)

\* The number of occurrences of a character in a list of characters.
Occurrences(chars, char) == Cardinality({k \in 1..Len(chars) : chars[k] = char})

\* The characters of a list of segments, segment after segment.
SegmentChars(segments) == Concat([k \in 1..Len(segments) |-> segments[k].chars])

\* C16: every character of the input occurs in the segments as often as in
\* the input, and as often in the segments of the paragraphs; the texts of
\* the output paragraphs hold, between the joining blanks, no more
\* characters than the input has.
C16_CharactersPartitioned ==
    /\ (op = "detect_lines_and_paragraphs" /\ pc = "segments") =>
           /\ Len(SegmentChars(result)) = Len(args.chars)
           /\ \A c \in LineGlyphs : Occurrences(SegmentChars(result), c) = Occurrences(args.chars, c)
    /\ (op = "detect_lines_and_paragraphs" /\ pc = "paragraphs") =>
           LET in_paragraphs == Concat([p \in 1..Len(result) |-> SegmentChars(result[p].segments)])
           IN /\ Len(in_paragraphs) = Len(args.chars)
              /\ \A c \in LineGlyphs : Occurrences(in_paragraphs, c) = Occurrences(args.chars, c)
    /\ (Returned("detect_lines_and_paragraphs") /\ args.chars # <<>>) =>
           SeqSum([p \in 1..Len(result.paragraphs) |->
                      Len(result.paragraphs[p].text) - (result.paragraphs[p].segments - 1)])
               <= Len(args.chars)

\* C16 witness: the characters are grouped into two paragraphs, one of which
\* has a segment of two equal characters.
C16_Witness ==
    /\ op = "detect_lines_and_paragraphs"
    /\ pc = "paragraphs"
    /\ Len(result) = 2
    /\ \E p \in 1..2 :
           LET segment == result[p].segments[1]
           IN Len(segment.chars) = 2 /\ segment.chars[1] = segment.chars[2]

(***************************************************************************)
(* Properties of process_paragraphs (checked under SpecFit).               *)
(***************************************************************************)

\* A paragraph process_paragraphs does not fit: empty text, or a box of zero
\* width or zero height.
NothingToFit(paragraph) ==
    \/ paragraph.text = <<>>
    \/ paragraph.bounding_box.x1 = paragraph.bounding_box.x0
    \/ paragraph.bounding_box.y1 = paragraph.bounding_box.y0

\* C17: process_paragraphs returns one record per input paragraph, the i-th
\* record for the i-th paragraph; a paragraph with empty text or a box of
\* zero width or height comes back with fit_method "not_fitted" and every
\* field it had unchanged.
C17_OneRecordPerParagraph ==
    Returned("process_paragraphs") =>
        /\ Len(result) = Len(args.paragraphs)
        /\ \A i \in 1..Len(args.paragraphs) :
               LET paragraph == args.paragraphs[i]
               IN /\ \A f \in DOMAIN paragraph \ {"text"} : result[i][f] = paragraph[f]
                  /\ NothingToFit(paragraph) =>
                         /\ result[i].fit_method = "not_fitted"
                         /\ result[i].text = paragraph.text
                  /\ ~NothingToFit(paragraph) => result[i].fit_method # "not_fitted"

\* C17 witness: a list in which a paragraph with a box of zero height and
\* non-empty text is followed by a different paragraph that is fitted.
C17_Witness ==
    /\ Returned("process_paragraphs")
    /\ Len(result) = 2
    /\ args.paragraphs[1].text # <<>>
    /\ args.paragraphs[1].bounding_box.y1 = args.paragraphs[1].bounding_box.y0
    /\ result[1].fit_method = "not_fitted"
    /\ result[2].fit_method = "multi_line"
    /\ args.paragraphs[1].page_number # args.paragraphs[2].page_number

(***************************************************************************)
(* Properties of the downstream stages (checked under SpecPipeline).       *)
(***************************************************************************)

GeometryFields == {"bounding_box", "font_name", "font_size", "column", "num_lines", "page_number"}

TranslationTags == {"translated", "target_language"}

\* C18: a call of translate_paragraphs or of process_paragraphs leaves the
\* paragraphs it was given as they were and returns, for each of them, a
\* record with the same geometry and style fields; translate_paragraphs
\* changes no field but text and adds the tags translated and
\* target_language.
C18_NonDestructive ==
    [][(pc = "call" /\ op \in {"translate_paragraphs", "process_paragraphs"}) =>
           /\ args'.paragraphs = args.paragraphs
           /\ Len(result') = Len(args.paragraphs)
           /\ \A i \in 1..Len(args.paragraphs) :
                  LET paragraph == args.paragraphs[i]
                  IN /\ \A f \in GeometryFields : result'[i][f] = paragraph[f]
                     /\ op = "translate_paragraphs" =>
                            /\ DOMAIN result'[i] = DOMAIN paragraph \cup TranslationTags
                            /\ \A f \in DOMAIN paragraph \ {"text"} : result'[i][f] = paragraph[f]
                            /\ result'[i].translated
                            /\ result'[i].target_language = args.target_language]_vars

\* C18 witness: process_paragraphs has returned a paragraph whose text was
\* replaced by the translation and then wrapped over two lines.
C18_Witness ==
    /\ Returned("process_paragraphs")
    /\ \E i \in 1..Len(result) :
           /\ "translated" \in DOMAIN args.paragraphs[i]
           /\ args.paragraphs[i].text \in TranslatedTexts
           /\ Len(result[i].fitted_lines) = 2
           /\ result[i].text # args.paragraphs[i].text

\* The characters, each without a size field given the size 12.
WithDefaultSize(chars) ==
    [k \in 1..Len(chars) |->
        [f \in DOMAIN chars[k] \cup {"size"} |->
            IF f \in DOMAIN chars[k] THEN chars[k][f] ELSE 12]]

\* C19: detect_lines_and_paragraphs returns, for characters without a size
\* field, the paragraphs it returns when these characters carry the size 12:
\* the same segments, the same paragraph breaks and font_size = 12.
C19_MissingSizeIsTwelve ==
    Returned("detect_lines_and_paragraphs") =>
        result = detect_lines_and_paragraphs(WithDefaultSize(args.chars))


(***************************************************************************)
(* Properties of the stages on empty input (checked under SpecStages).     *)
(***************************************************************************)

\* The result of the current call has no lines and is not truncated.
NoLinesNotTruncated == result.lines = <<>> /\ result.is_truncated = FALSE

\* C20: empty input is absorbed at every stage without an exception: for an
\* empty character list extract_font_metrics returns an empty map,
\* detect_columns_by_gaps returns [0, page_width], detect_lines_and_paragraphs
\* returns no paragraphs and group_characters_for_translation no groups; for
\* an empty paragraph list process_paragraphs returns an empty list; for
\* empty text wrap_text and fit_text_to_bounds return a result with no lines
\* and is_truncated = false.
C20_EmptyInputAbsorbed ==
    /\ (Returned("extract_font_metrics") /\ args.char_data = <<>>) => DOMAIN result = {}
    /\ (Returned("detect_columns_by_gaps") /\ args.chars = <<>>) =>
           result = <<Fraction(0, 1), Fraction(args.page_width, 1)>>
    /\ (Returned("detect_lines_and_paragraphs") /\ args.chars = <<>>) =>
           (result.lines = <<>> /\ result.paragraphs = <<>>)
    /\ (op = "group_characters_for_translation" /\ pc # "call" /\ args.chars = <<>>) =>
           (pc = "done" /\ DOMAIN result = {})
    /\ (Returned("process_paragraphs") /\ args.paragraphs = <<>>) => DOMAIN result = {}
    /\ (Returned("wrap_text") /\ args.text = <<>>) => NoLinesNotTruncated
    /\ (Returned("fit_text_to_bounds") /\ args.text = <<>>) => NoLinesNotTruncated

\* group_characters_for_translation has returned no group for a page without
\* characters.
C20_Witness ==
    /\ Returned("group_characters_for_translation")
    /\ args.chars = <<>>
    /\ DOMAIN result = {}

(***************************************************************************)
(* Properties of the segments and paragraphs of                            *)
(* detect_lines_and_paragraphs (checked under SpecLines).                  *)
(***************************************************************************)

\* The segments of the current call have been built.
SegmentsBuilt == op = "detect_lines_and_paragraphs" /\ pc = "segments"

\* max(20, 2 * font size) of a character, in hundredths of a point; a
\* character without a size counts with size 12.
GapLimit(char) ==
    IF "size" \in DOMAIN char /\ char.size * 200 > 2000 THEN char.size * 200
    ELSE IF "size" \in DOMAIN char THEN 2000
    ELSE 2400

\* C21: within each row (characters with the same round(y0, 1)) the
\* characters of every segment are in left-to-right order of x0, no two
\* consecutive characters of a segment are further apart than
\* max(20, 2 * font size of the second), and a segment follows another of its
\* row exactly where that gap is exceeded.
C21_SegmentsSplitAtGaps ==
    SegmentsBuilt =>
        /\ \A s \in 1..Len(result) :
               LET segment == result[s].chars
               IN /\ \A k \in 1..Len(segment) : Round1(segment[k].y0) = result[s].y_pos
                  /\ \A k \in 2..Len(segment) :
                         /\ segment[k - 1].x0 <= segment[k].x0
                         /\ segment[k].x0 - segment[k - 1].x1 <= GapLimit(segment[k])
        /\ \A s \in 2..Len(result) :
               result[s].y_pos = result[s - 1].y_pos =>
                   LET first == result[s].chars[1]
                       last == result[s - 1].chars[Len(result[s - 1].chars)]
                   IN /\ last.x0 <= first.x0
                      /\ first.x0 - last.x1 > GapLimit(first)
        /\ \A s \in 1..Len(result) : \A t \in s..Len(result) :
               result[s].y_pos = result[t].y_pos =>
                   \A u \in s..t : result[u].y_pos = result[s].y_pos

\* A row of three characters: a gap of 22 points before a character without
\* a size is kept inside the segment, the next gap opens a second segment.
C21_Witness ==
    /\ SegmentsBuilt
    /\ Len(result) = 2
    /\ result[1].y_pos = result[2].y_pos
    /\ Len(result[1].chars) = 2
    /\ result[1].chars[2].x0 - result[1].chars[1].x1 = 2200

\* The segments of the current call have been assigned to columns.
ColumnsAssigned == op = "detect_lines_and_paragraphs" /\ pc = "columns"

\* The columns of a list of columns that hold a segment.
ColumnsHolding(columns, segment) ==
    {b \in 1..Len(columns) :
        \E k \in 1..Len(columns[b].segments) : columns[b].segments[k] = segment}

\* The position of a segment in the order of processing.
PositionIn(segments, segment) == CHOOSE i \in 1..Len(segments) : segments[i] = segment

\* Every segment is in one column whose key is nearer to its x_start than
\* the reach (in hundredths of a point), and no column opened before another
\* is nearer to the key of that one than the reach.
AssignedWithin(segments, columns, reach) ==
    /\ \A i \in 1..Len(segments) :
           /\ Cardinality(ColumnsHolding(columns, segments[i])) = 1
           /\ \A b \in ColumnsHolding(columns, segments[i]) :
                  AbsDiff(segments[i].x_start, columns[b].col_key) < reach
    /\ \A b \in 1..Len(columns) : \A c \in 1..Len(columns) :
           PositionIn(segments, columns[c].segments[1])
               < PositionIn(segments, columns[b].segments[1]) =>
                   AbsDiff(columns[c].col_key, columns[b].col_key) >= reach

\* The columns come in ascending order of their key, hold the segments and
\* nothing else, and the key of a column is the x_start of the segment that
\* opened it, the first processed of its segments.
ColumnsOrdered(segments, columns) ==
    /\ \A b \in 2..Len(columns) : columns[b - 1].col_key < columns[b].col_key
    /\ SeqSum([b \in 1..Len(columns) |-> Len(columns[b].segments)]) = Len(segments)
    /\ \A b \in 1..Len(columns) :
           /\ columns[b].col_key = columns[b].segments[1].x_start
           /\ \A i \in 1..Len(columns[b].segments) :
                  PositionIn(segments, columns[b].segments[1])
                      <= PositionIn(segments, columns[b].segments[i])

ParagraphsGrouped == op = "detect_lines_and_paragraphs" /\ pc = "paragraphs"

\* 1.5 times the font size of the first character of a segment, in tenths of
\* a point; a character without a size counts with size 12.
ParagraphGapLimit(segment) ==
    IF "size" \in DOMAIN segment.chars[1] THEN segment.chars[1].size * 15 ELSE 180

\* The paragraphs of one column, in the order they were closed.
ParagraphsOfColumn(paragraphs, col_idx) ==
    SelectSeq(paragraphs, LAMBDA p : p.column = col_idx)

\* C23: within one column, with the segments taken top to bottom, the
\* paragraphs are consecutive runs of the segments; two consecutive segments
\* are in the same paragraph if and only if |prev.y_pos - next.y_pos| is at
\* most 1.5 times the font size of the first character of the next.
C23_ParagraphsSplitAtGaps ==
    [][ColumnsAssigned =>
           \A b \in 1..Len(result) :
               LET paragraphs == ParagraphsOfColumn(result', b - 1)
                   runs == [k \in 1..Len(paragraphs) |-> paragraphs[k].segments]
               IN /\ Concat(runs) = result[b].segments
                  /\ \A k \in 2..Len(result[b].segments) :
                         result[b].segments[k - 1].y_pos >= result[b].segments[k].y_pos
                  /\ \A k \in 1..Len(runs) :
                         /\ runs[k] # <<>>
                         /\ \A i \in 2..Len(runs[k]) :
                                AbsDiff(runs[k][i - 1].y_pos, runs[k][i].y_pos)
                                    <= ParagraphGapLimit(runs[k][i])
                  /\ \A k \in 2..Len(runs) :
                         AbsDiff(runs[k - 1][Len(runs[k - 1])].y_pos, runs[k][1].y_pos)
                             > ParagraphGapLimit(runs[k][1])]_vars

\* Two columns; in one of them a segment 17 points below another stayed in
\* its paragraph because its first character has no size.
C23_Witness ==
    /\ ParagraphsGrouped
    /\ Len(result) = 2
    /\ \E p \in 1..2 :
           /\ Len(result[p].segments) = 2
           /\ result[p].segments[1].y_pos - result[p].segments[2].y_pos = 170

\* An output paragraph is the record of a paragraph of segments: same column,
\* same text, same bounding box.
IsRecordOf(formatted, paragraph) ==
    LET all_chars == SegmentChars(paragraph.segments)
        n == Len(all_chars)
    IN /\ formatted.column = paragraph.column
       /\ formatted.text = Join([k \in 1..Len(paragraph.segments) |->
                                    paragraph.segments[k].text], <<" ">>)
       /\ formatted.bounding_box =
              [x0 |-> SeqMin([k \in 1..n |-> all_chars[k].x0]),
               y0 |-> SeqMin([k \in 1..n |-> all_chars[k].y0]),
               x1 |-> SeqMax([k \in 1..n |-> all_chars[k].x1]),
               y1 |-> SeqMax([k \in 1..n |-> all_chars[k].y1])]

\* The rounded y positions of the segments of a paragraph.
RowsOf(paragraph) == {paragraph.segments[k].y_pos : k \in 1..Len(paragraph.segments)}

\* Two segments of the paragraph come from the same row.
HasSplitRow(paragraph) ==
    \E i \in 1..Len(paragraph.segments) : \E j \in 1..Len(paragraph.segments) :
        i # j /\ paragraph.segments[i].y_pos = paragraph.segments[j].y_pos

\* C24: every paragraph output by detect_lines_and_paragraphs is the record of
\* one paragraph of segments; its num_lines is the number of distinct rounded
\* y positions of these segments and its segments their number, so that
\* 1 <= num_lines <= segments, with num_lines < segments exactly when two
\* segments of the paragraph come from one row.
C24_NumLinesCountsRows ==
    [][ParagraphsGrouped =>
           \A q \in 1..Len(result'.paragraphs) :
               LET formatted == result'.paragraphs[q]
                   sources == {p \in 1..Len(result) : IsRecordOf(formatted, result[p])}
               IN /\ Cardinality(sources) = 1
                  /\ \A p \in sources :
                         /\ formatted.num_lines = Cardinality(RowsOf(result[p]))
                         /\ formatted.segments = Len(result[p].segments)
                         /\ 1 <= formatted.num_lines
                         /\ formatted.num_lines <= formatted.segments
                         /\ (formatted.num_lines < formatted.segments) <=> HasSplitRow(result[p])]_vars

\* A returned paragraph of three segments on two rows.
C24_Witness ==
    /\ Returned("detect_lines_and_paragraphs")
    /\ \E q \in 1..Len(result.paragraphs) :
           result.paragraphs[q].num_lines = 2 /\ result.paragraphs[q].segments = 3

(***************************************************************************)
(* Properties of the sampling of extract_font_metrics (checked under       *)
(* SpecMetrics).                                                           *)
(***************************************************************************)

\* The widths, in the order of reading, of the visible characters of a font
\* variant that lie in the range of its font size.
InRangeWidths(char_data, k) ==
    LET of_variant == SelectSeq(char_data,
                          LAMBDA c : /\ <<c.fontname, IF "size" \in DOMAIN c THEN c.size ELSE 12>> = k
                                     /\ c.text # " "
                                     /\ WithinFontRange(c.x1 - c.x0, k[2]))
    IN [i \in 1..Len(of_variant) |-> of_variant[i].x1 - of_variant[i].x0]

\* The value at the middle index of five widths put in ascending order: at
\* most two of them are smaller, at least three are not greater.
IsMedianOfFive(width, widths) ==
    /\ \E i \in 1..5 : widths[i] = width
    /\ Cardinality({i \in 1..5 : widths[i] < width}) <= 2
    /\ Cardinality({i \in 1..5 : widths[i] <= width}) >= 3

RECURSIVE DoubledDelays(_, _)
DoubledDelays(delay, n) ==
    IF n = 0 THEN <<>> ELSE <<delay>> \o DoubledDelays(2 * delay, n - 1)

\* The call went to the translation client: the block is not blank, not
\* cached, and the client was created.
ReachedClient ==
    /\ op = "translate_text"
    /\ pc \in {"attempt", "done"}
    /\ ~IsEmptyOrSpace(args.text_block)
    /\ args.cached_translation = <<>>
    /\ result.outcome # "raised"

OnlyClientErrors(calls) == \A k \in 1..Len(calls) : calls[k] = "ClientError"

\* C26: for one text block translate_text calls the client at most
\* max_retries times; every call before the last one ended in a ClientError
\* and was followed by a sleep, the delays doubling from retry_delay; a
\* successful response ends the call, is returned and is saved to the
\* translation memory once, and nothing is saved otherwise; and a call that
\* ended after max_retries ClientErrors returned the original text_block.
C26_RetryContract ==
    ReachedClient =>
        LET calls == result.calls
            ended == pc = "done"
            retried == IF ended /\ calls # <<>> THEN Len(calls) - 1 ELSE Len(calls)
        IN /\ Len(calls) <= args.max_retries
           /\ OnlyClientErrors(SubSeq(calls, 1, retried))
           /\ result.sleeps = DoubledDelays(args.retry_delay, retried)
           /\ (calls # <<>> /\ calls[Len(calls)] = "TranslatedText") =>
                  /\ ended
                  /\ result.outcome = "returned"
                  /\ result.saved = <<TranslationPair(args.text_block, result.value,
                                                      args.target_language)>>
           /\ OnlyClientErrors(calls) => result.saved = <<>>
           /\ (ended /\ OnlyClientErrors(calls) /\ Len(calls) = args.max_retries) =>
                  /\ result.outcome = "returned"
                  /\ result.value = args.text_block

(***************************************************************************)
(* C27: wrap_text loses no word silently (checked under SpecWrap, where    *)
(* max_lines >= 1).                                                        *)
(***************************************************************************)
\* The tokens of a sequence of tokens that are in none of the output lines.
MissingFrom(tokens, lines) ==
    LET words == AllWords(lines)
        found == {words[j] : j \in 1..Len(words)}
    IN {i \in 1..Len(tokens) : tokens[i] \notin found}

\* C27 as stated: is_truncated is false exactly when the words of the output
\* lines, read in order, are the words of the input text, and it is true
\* whenever an input word is missing from the output.
C27_OutputWordsAreInputWords ==
    Returned("wrap_text") =>
        /\ ~result.is_truncated <=> (AllWords(result.lines) = InputWords)
        /\ MissingFrom(InputWords, result.lines) # {} => result.is_truncated

\* C27 amended: is_truncated is false exactly when the words of the output
\* lines, read in order, are the input words with a split first word
\* standing as its hyphenated part followed by its remainder; when it is
\* true the output words are a proper prefix of them, and whenever one of
\* them is missing from the output it is true.
C27_NoWordLostSilently ==
    Returned("wrap_text") =>
        LET words == AllWords(result.lines)
            expected == ExpectedTokens
        IN /\ ~result.is_truncated <=> (words = expected)
           /\ result.is_truncated => (IsPrefix(words, expected) /\ Len(words) < Len(expected))
           /\ MissingFrom(expected, result.lines) # {} => result.is_truncated

\* C27 witness: a call that ran out of lines with content left after the
\* loop, so that the last token is missing and is_truncated is set.
C27_Witness ==
    /\ Returned("wrap_text")
    /\ result.is_truncated
    /\ Len(result.lines) = args.max_lines
    /\ Len(AllWords(result.lines)) = Len(ExpectedTokens) - 1
    /\ MissingFrom(ExpectedTokens, result.lines) # {}

(***************************************************************************)
(* C28: the split of an overlong first word (checked under SpecWrap).      *)
(***************************************************************************)
\* The part break_long_word returned, less the hyphen it added: the branch
\* that returns word[0] alone adds none.
WithoutAddedHyphen(broken_part) ==
    IF Len(broken_part) >= 2 THEN TakeFirst(broken_part, Len(broken_part) - 1) ELSE broken_part

\* C28: when wrap_text splits the first word, the part emitted on the line,
\* without the hyphen that was added, followed by the remainder carried to
\* the next line is the original word.
C28_SplitPreservesWord ==
    (Returned("wrap_text") /\ FirstWordPart # <<>> /\ Len(AllWords(result.lines)) >= 2) =>
        LET toks == AllWords(result.lines)
        IN /\ toks[1] = FirstWordPart
           /\ WithoutAddedHyphen(toks[1]) \o toks[2] = InputWords[1]

(***************************************************************************)
(* C29: group_characters_for_translation on a page with characters         *)
(* (checked under SpecStages).                                             *)
(***************************************************************************)
\* The call of group_characters_for_translation has ended, with the list of
\* groups or with an exception, for a page with characters.
GroupingEnded ==
    /\ op = "group_characters_for_translation"
    /\ pc \in {"done", "raised"}
    /\ args.chars # <<>>
    /\ args.page_width > 0

\* The number of places (group, index in its characters list) holding char.
PlacesOf(char, groups) ==
    Cardinality({place \in UNION {{g} \X (1..Len(groups[g].characters)) : g \in 1..Len(groups)} :
                    groups[place[1]].characters[place[2]] = char})

\* The number of occurrences of char in the input list.
OccurrencesOf(char, chars) == Cardinality({k \in 1..Len(chars) : chars[k] = char})

\* C29: for a non-empty character list and a positive page_width,
\* group_characters_for_translation completes without raising and every
\* input character is in the characters list of exactly one output group.
C29_GroupingCompletes ==
    GroupingEnded =>
        /\ pc = "done"
        /\ \A k \in 1..Len(args.chars) :
               PlacesOf(args.chars[k], result) = OccurrencesOf(args.chars[k], args.chars)

(***************************************************************************)
(* C30: the global metrics after the pages are merged (checked under       *)
(* SpecMetrics).                                                           *)
(***************************************************************************)
\* The in-range width samples a page is known to have supplied for a key:
\* the samples still held, or the five the median was taken of.
PageSamples(font_metrics, font_key) ==
    IF font_key \notin DOMAIN font_metrics THEN 0
    ELSE IF font_metrics[font_key].standard_char_width # 0 THEN 5
    ELSE Len(font_metrics[font_key].char_samples)

\* C30: after the merge of the pages processed so far, every font variant
\* with at least 5 in-range width samples in total across those pages has
\* standard_char_width set in the global map.
C30_MergedVariantHasWidth ==
    op = "extract_text_metadata" =>
        \A font_key \in DOMAIN result.font_metrics :
            SeqSum([p \in 1..Len(args.pages) |-> PageSamples(args.pages[p], font_key)]) >= 5
                => result.font_metrics[font_key].standard_char_width # 0

====
